---- MODULE Spec2Model ----
(***************************************************************************)
(* encviz: chart index, spatial compositor (enc_dataset::export_data) and  *)
(* the tile request path (request_handler -> enc_renderer::render).        *)
(*                                                                         *)
(* Coordinates are whole numbers: the unit is a tenth of the side of a     *)
(* tile of the deepest zoom level requested, x grows to the east and y to  *)
(* the south, from the corner of tile (0, 0).  The plane is cut into       *)
(* rectangular cells along the edges of the envelopes render computes for  *)
(* the tiles; a polygon (or multipolygon) is the set of cells it covers,   *)
(* the cell <<x0, x1, y0, y1>> covers [x0,x1]x[y0,y1].                     *)
(***************************************************************************)
EXTENDS Integers, Sequences, FiniteSets, TLC

\* Bounds of the model
GridW == 3
GridH == 2
NumCharts == 2

VARIABLES
    enc_root,     \* directory listing of ENC_ROOT: sequence of chart files
    cache,        \* metadata cache directory: stem -> cached record
    pos,          \* load_charts: position of the directory iterator
    charts_,      \* enc_dataset::charts_ : stem -> metadata
    styles_,      \* enc_renderer::styles_ : style name -> layer names
    proc,         \* "starting" | "running" | "terminated"
    error,        \* what() of the exception that ended the process, or "none"
    pc,           \* position of the request worker
    req,          \* request being served (or served last)
    selected,     \* export_data: selected charts, sorted
    idx,          \* export_data: index of the next chart of selected
    ods,          \* output dataset: layer name -> sequence of features
    clip_layer,   \* export_data: features of the clip layer (missing coverage)
    opened,       \* charts opened with GDALDataset::Open, in order: by the
                  \* current request, or by load_charts at startup
    result,       \* what export_data returned: "none" | "true" | "false"
    response,     \* HTTP status of the last reply (0: none yet)
    conn,         \* thread per connection: thread -> state of its request
    datasets,     \* GDAL Memory datasets alive: handle -> contents
    style_dir,    \* style files under the style path, as load_config lists them
    surface,      \* cairo surface: what has been drawn, in order
    wm,           \* web_mercator object of the tile
    point,        \* coordinate handed through the web_mercator conversions
    cr,           \* cairo context of render: the dash pattern it holds
    multi_poly    \* render: polygons of the layer kept for the union pass

vars == <<enc_root, cache, pos, charts_, styles_, proc, error, pc, req,
          selected, idx, ods, clip_layer, opened, result, response,
          conn, datasets, style_dir, surface, wm, point, cr, multi_poly>>

\* the connection threads and the datasets they hold
Threads == <<conn, datasets>>

\* style loading
StyleFiles == <<style_dir>>

\* drawing a tile
Drawing == <<surface, wm, point, cr, multi_poly>>

-----------------------------------------------------------------------------
(* Geometry                                                                *)

Min(S) == CHOOSE m \in S : \A n \in S : m <= n
Max(S) == CHOOSE m \in S : \A n \in S : m >= n
Abs(a) == IF a < 0 THEN -a ELSE a

\* compilation scales of the charts
Scales == {5000, 50000}

\* part_003 lines 131-139: hard-coded presentation scales
ScaleMin(z) ==
    IF z >= 15 THEN 2200
    ELSE IF z >= 13 THEN 4500
    ELSE IF z >= 11 THEN 35000
    ELSE IF z >= 7 THEN 675000
    ELSE 1200000

\* zoom levels of the requests: one for every presentation scale of render
\* that is below 1200000
Zooms == {7, 11, 13}

\* the deepest of them: its tiles are the smallest
Deepest == Max(Zooms)

\* the side of a tile of zoom z: it halves from one zoom level to the next
TileSide(z) == 10 * (2 ^ (Deepest - z))

\* web_mercator::get_bbox_deg for the tile of column x and row y of zoom z
\* (part_003 lines 111-112); the rows are taken to be of one height
BaseEnvelope(x, y, z) ==
    [MinX |-> x * TileSide(z), MaxX |-> (x + 1) * TileSide(z),
     MinY |-> y * TileSide(z), MaxY |-> (y + 1) * TileSide(z)]

\* part_003 lines 115-122: the envelope grows by oversample * (width/2) and
\* oversample * (height/2) on every side, oversample = 0.2
Oversampled(bbox) ==
    LET width == bbox.MaxX - bbox.MinX
        height == bbox.MaxY - bbox.MinY
    IN [MinX |-> bbox.MinX - ((2 * (width \div 2)) \div 10),
        MaxX |-> bbox.MaxX + ((2 * (width \div 2)) \div 10),
        MinY |-> bbox.MinY - ((2 * (height \div 2)) \div 10),
        MaxY |-> bbox.MaxY + ((2 * (height \div 2)) \div 10)]

\* the envelope render passes to export_data for a tile (lines 110-122)
TileEnvelope(x, y, z) == Oversampled(BaseEnvelope(x, y, z))

\* the tiles a request can name: GridW columns and GridH rows of the deepest
\* zoom level, and of every other zoom level the tile that holds them all
Tiles ==
    {t \in [x : 0..(GridW - 1), y : 0..(GridH - 1), z : Zooms] :
        t.z = Deepest \/ (t.x = 0 /\ t.y = 0)}

\* request envelopes: those of the tiles
BBoxes == {TileEnvelope(t.x, t.y, t.z) : t \in Tiles}

\* the envelopes export_data can build a polygon from: those of the tiles
\* for which a chart is detailed enough
Clipped ==
    {TileEnvelope(t.x, t.y, t.z) :
        t \in {u \in Tiles : ScaleMin(u.z) <= Max(Scales)}}

\* the coordinates of the edges of these envelopes
XMarks == UNION {{b.MinX, b.MaxX} : b \in Clipped}
YMarks == UNION {{b.MinY, b.MaxY} : b \in Clipped}

\* neighbours among the marks
Adjacent(marks) ==
    {p \in marks \X marks : p[1] < p[2] /\ \A m \in marks : m <= p[1] \/ m >= p[2]}

Cells == {<<p[1], p[2], q[1], q[2]>> : p \in Adjacent(XMarks), q \in Adjacent(YMarks)}

\* the first tile column, the first tile row and two opposite tiles, each
\* as render requests it, with what lies beyond on the side of the edge of
\* the map
Col0 == {c \in Cells : c[2] <= TileEnvelope(0, 0, Deepest).MaxX}
Row0 == {c \in Cells : c[4] <= TileEnvelope(0, 0, Deepest).MaxY}
Corner0 == Col0 \cap Row0
CornerN ==
    {c \in Cells : /\ c[1] >= TileEnvelope(GridW - 1, GridH - 1, Deepest).MinX
                   /\ c[3] >= TileEnvelope(GridW - 1, GridH - 1, Deepest).MinY}

\* what lies east of the first tile column, and outside the first tile
East == Cells \ Col0
Outer == Cells \ Corner0

\* OGRGeometry::getEnvelope of a non-empty geometry
getEnvelope(geo) ==
    [MinX |-> Min({c[1] : c \in geo}), MaxX |-> Max({c[2] : c \in geo}),
     MinY |-> Min({c[3] : c \in geo}), MaxY |-> Max({c[4] : c \in geo})]

\* OGREnvelope::Merge
Merge(a, b) ==
    [MinX |-> Min({a.MinX, b.MinX}), MaxX |-> Max({a.MaxX, b.MaxX}),
     MinY |-> Min({a.MinY, b.MinY}), MaxY |-> Max({a.MaxY, b.MaxY})]

\* OGREnvelope::Intersects (closed rectangles: touching edges intersect)
Intersects(a, b) ==
    /\ a.MinX <= b.MaxX /\ a.MaxX >= b.MinX
    /\ a.MinY <= b.MaxY /\ a.MaxY >= b.MinY

\* the polygon create_bbox_feature builds from an envelope
BBoxPolygon(bbox) ==
    {c \in Cells : /\ bbox.MinX <= c[1] /\ c[2] <= bbox.MaxX
                   /\ bbox.MinY <= c[3] /\ c[4] <= bbox.MaxY}

UnionAll(S) == UNION S

-----------------------------------------------------------------------------
(* Chart files                                                             *)

CovFeat(catcov, geo) == [kind |-> "int", CATCOV |-> catcov, geom |-> geo]
BadCovr(kind) == [kind |-> kind, CATCOV |-> 1, geom |-> Cells]
Feat(fid, geo) == [fid |-> fid, geom |-> geo]

\* coverage far from the origin of the grid: its bounds have seven digits
Offshore == {<<1234565, 1234566, 7654321, 7654322>>}

\* A chart file on disk is named by what it holds: the state of its DSID
\* record, its compilation scale, its M_COVR layer and its feature layers.
\* M_COVR layers: "right" covers the columns right of the first; "corners"
\* has two coverage features in opposite corners; "first" covers the first
\* column and declares the rest "no coverage available"; "offshore" covers
\* one cell far from the origin; "none" declares "no coverage available"
\* everywhere; "absent": no M_COVR layer; "catcov_missing",
\* "catcov_not_integer": a feature with a bad CATCOV
CoverageLayer(covr) ==
    CASE covr = "right" -> <<CovFeat(1, East)>>
      [] covr = "corners" -> <<CovFeat(1, Corner0), CovFeat(1, CornerN)>>
      [] covr = "first" -> <<CovFeat(1, Col0), CovFeat(2, East)>>
      [] covr = "offshore" -> <<CovFeat(1, Offshore)>>
      [] covr = "none" -> <<CovFeat(2, Cells)>>
      [] covr = "catcov_missing" -> <<CovFeat(2, Col0), BadCovr("missing")>>
      [] covr = "catcov_not_integer" -> <<CovFeat(1, Col0), BadCovr("not_integer")>>
      [] OTHER -> <<>>

\* feature layers: a chart with depth areas and land, a chart of the open
\* sea without land, and an inland chart without depth areas (a layer a
\* chart does not carry is not in the record)
FeatureLayers(content) ==
    IF content = "full"
    THEN [DEPARE |-> <<Feat(1, Col0), Feat(2, East)>>,
          LNDARE |-> <<Feat(7, Outer)>>]
    ELSE IF content = "sea"
    THEN [DEPARE |-> <<Feat(3, Row0), Feat(4, Cells)>>]
    ELSE [LNDARE |-> <<Feat(7, Row0), Feat(8, Cells)>>]

\* what GDALDataset::Open reads from a chart file
S57(f) ==
    [dsid |-> f.dsid, scale |-> f.scale, has_M_COVR |-> f.covr # "absent",
     M_COVR |-> CoverageLayer(f.covr), layers |-> FeatureLayers(f.content)]

ChartFile(dsid, scale, covr, content) ==
    [dsid |-> dsid, scale |-> scale, covr |-> covr, content |-> content]

\* well-formed charts: each has a "coverage available" feature
GoodFiles ==
    {ChartFile("ok", s, c, "full") : <<s, c>> \in Scales \X {"right", "corners", "first"}}
    \cup {ChartFile("ok", s, "first", c) : <<s, c>> \in Scales \X {"inland", "sea"}}

Entry(dir, stem, file) == [dir |-> dir, stem |-> stem, ext |-> ".000", file |-> file]
PathOf(e) == <<e.dir, e.stem, e.ext>>

-----------------------------------------------------------------------------
(* Chart index: disk parse                                                 *)

\* get_feat_field_int on the CATCOV field of the M_COVR features, in order:
\* index of the first feature whose field is missing or not an integer, or 0
RECURSIVE FirstBadCovr(_, _)
FirstBadCovr(mcovr, i) ==
    IF i > Len(mcovr) THEN 0
    ELSE IF mcovr[i].kind # "int" THEN i
    ELSE FirstBadCovr(mcovr, i + 1)

\* the exception the loop over the M_COVR features throws on this file, in
\* load_chart_disk (lines 396-419) as in copy_chart_coverage, or "ok"
CoverageError(file) ==
    IF ~file.has_M_COVR THEN "Cannot open M_COVR layer"
    ELSE IF FirstBadCovr(file.M_COVR, 1) = 0 THEN "ok"
    ELSE IF file.M_COVR[FirstBadCovr(file.M_COVR, 1)].kind = "missing"
         THEN "Feature does not have field \"CATCOV\""
    ELSE "Feature field \"CATCOV\" is not an integer"

\* the exception load_chart_disk throws on this file, or "ok"
DiskParseError(file) ==
    IF file.dsid = "cannot_open" THEN "Cannot open OGR dataset"
    ELSE IF file.dsid = "no_layer" THEN "Cannot open DSID layer"
    ELSE IF file.dsid = "no_feature" THEN "Cannot read DSID feature"
    ELSE IF file.dsid = "no_field" THEN "Feature does not have field \"DSPM_CSCL\""
    ELSE IF file.dsid = "not_integer" THEN "Feature field \"DSPM_CSCL\" is not an integer"
    ELSE CoverageError(file)

\* the "coverage available" (CATCOV = 1) features of an M_COVR layer, in order
CoverageAvailable(mcovr) ==
    LET Avail(f) == f.CATCOV = 1 IN SelectSeq(mcovr, Avail)

\* the infinity of a double: above every coordinate of a geometry
Infinity == 2 ^ 30

\* the envelope of the metadata as constructed (OGREnvelope bbox of struct
\* metadata): MinX = MinY = inf, MaxX = MaxY = -inf
OGREnvelope ==
    [MinX |-> Infinity, MaxX |-> -Infinity, MinY |-> Infinity, MaxY |-> -Infinity]

\* next.bbox.Merge(covr) over the coverage features, from the envelope as
\* constructed: a layer without a "coverage available" feature leaves it
RECURSIVE MergeCoverage(_)
MergeCoverage(covr) ==
    IF covr = <<>> THEN OGREnvelope
    ELSE Merge(MergeCoverage(SubSeq(covr, 1, Len(covr) - 1)),
               getEnvelope(covr[Len(covr)].geom))

\* the metadata load_chart_disk stores for a well-formed chart
load_chart_disk(e) ==
    [path |-> PathOf(e), scale |-> S57(e.file).scale,
     bbox |-> MergeCoverage(CoverageAvailable(S57(e.file).M_COVR))]

-----------------------------------------------------------------------------
(* Metadata cache: the text of a record                                    *)

\* significant digits operator<< writes of a double: the precision of a
\* stream as constructed
StreamPrecision == 6

\* the number of decimal digits of a natural number below 2^31
Digits10(n) == IF n >= 10 ^ 9 THEN 10 ELSE Min({k \in 0..9 : n < 10 ^ k})

\* n \div unit rounded to the nearest, ties to even
RoundHalfEven(n, unit) ==
    IF 2 * (n % unit) > unit \/ (2 * (n % unit) = unit /\ (n \div unit) % 2 = 1)
    THEN (n \div unit) + 1
    ELSE n \div unit

\* the digits dropped by operator<< from a natural number
Dropped(n) ==
    IF Digits10(n) > StreamPrecision THEN Digits10(n) - StreamPrecision ELSE 0

\* handle << double (lines 317-318), for a double that is a whole number
\* or an infinity: the text, as its signed digits and the power of ten they
\* are to be multiplied with ("1.23457e+06" is 123457 and 1), or as its
\* sign and the word "inf"
FormatDouble(v) ==
    IF Abs(v) = Infinity
    THEN [digits |-> (IF v < 0 THEN -1 ELSE 1), exp |-> 0, inf |-> TRUE]
    ELSE [digits |-> (IF v < 0 THEN -1 ELSE 1) * RoundHalfEven(Abs(v), 10 ^ Dropped(Abs(v))),
          exp |-> Dropped(Abs(v)), inf |-> FALSE]

\* handle >> double (lines 343-344): the double the text denotes; the
\* extraction takes no character of "inf" and stores 0
ParseDouble(text) == IF text.inf THEN 0 ELSE text.digits * (10 ^ text.exp)

\* the extraction of a double succeeds on digits and fails on "inf"
Numeric(text) == ~text.inf

\* handle << path (line 316) writes the path between double quotes and
\* handle >> path (line 342) reads it from between them
Quoted(path) == <<"\"">> \o path \o <<"\"">>
Unquoted(text) == SubSeq(text, 2, Len(text) - 1)

\* the six fields save_chart_cache writes for a chart (lines 316-318)
Written(meta) ==
    [path |-> Quoted(meta.path), scale |-> meta.scale,
     MinX |-> FormatDouble(meta.bbox.MinX), MaxX |-> FormatDouble(meta.bbox.MaxX),
     MinY |-> FormatDouble(meta.bbox.MinY), MaxY |-> FormatDouble(meta.bbox.MaxY)]

\* the metadata load_chart_cache extracts from six fields (lines 341-344)
Extracted(text) ==
    [path |-> Unquoted(text.path), scale |-> text.scale,
     bbox |-> [MinX |-> ParseDouble(text.MinX), MaxX |-> ParseDouble(text.MaxX),
               MinY |-> ParseDouble(text.MinY), MaxY |-> ParseDouble(text.MaxY)]]

\* a file of the cache directory as load_chart_cache finds it:
\*   readable: std::ifstream opens it (line 338)
\*   fields:   how many of the six fields (path, scale, MinX, MaxX, MinY,
\*             MaxY) the text holds
\*   eol:      the text goes on after the last field
CacheFile(meta, readable, fields, eol) ==
    [meta |-> Written(meta), readable |-> readable, fields |-> fields, eol |-> eol]

\* the record save_chart_cache writes into a new file: six fields, each
\* followed by "\n"
CacheRecord(meta) == CacheFile(meta, TRUE, 6, TRUE)

-----------------------------------------------------------------------------
(* Spatial compositor: enc_dataset::export_data                            *)

MergeLayers ==
    {"TSSLPT", "ACHBRT", "LNDARE", "SEAARE", "BUAARE", "LNDRGN", "CBLSUB", "M_COVR"}

\* selection test of one chart
SuitableNoBBox(chart, bbox, scale_min) == scale_min <= chart.scale

Suitable(chart, bbox, scale_min) ==
    (scale_min <= chart.scale) /\ Intersects(bbox, chart.bbox)

\* iteration order of std::map: ascending key
RECURSIVE KeysInOrder(_)
KeysInOrder(S) ==
    IF S = {} THEN <<>>
    ELSE LET k == Min(S) IN <<k>> \o KeysInOrder(S \ {k})

SelectCharts(charts, bbox, scale_min) ==
    LET Test(k) == Suitable(charts[k], bbox, scale_min)
    IN SelectSeq(KeysInOrder(DOMAIN charts), Test)

\* std::sort by scale (insertion sort on the short ranges modelled here)
RECURSIVE Insert(_, _, _)
Insert(sorted, k, charts) ==
    IF sorted = <<>> THEN <<k>>
    ELSE IF charts[k].scale < charts[Head(sorted)].scale THEN <<k>> \o sorted
    ELSE <<Head(sorted)>> \o Insert(Tail(sorted), k, charts)

Unsorted(sel, charts) == sel

RECURSIVE SortByScale(_, _)
SortByScale(sel, charts) ==
    IF sel = <<>> THEN <<>>
    ELSE Insert(SortByScale(SubSeq(sel, 1, Len(sel) - 1), charts),
                sel[Len(sel)], charts)

\* create_layer for every requested layer
CreateLayers(layers) == [l \in {layers[i] : i \in 1..Len(layers)} |-> <<>>]

NoLayers == [l \in {} |-> <<>>]

\* state of the output dataset when export_data leaves its selection phase
LayersCreatedFirst(layers, sel) == CreateLayers(layers)

OutputAfterSelect(layers, sel) ==
    IF sel = <<>> THEN NoLayers ELSE CreateLayers(layers)

\* merge branch, one input feature: union with the output feature of the
\* same FID, else copy.  unionOK: OGRGeometry::Union returned a geometry
MergeFeature(olayer, feat, stem, unionOK) ==
    LET hit == {i \in 1..Len(olayer) : olayer[i].fid = feat.fid}
    IN IF hit # {}
       THEN LET i == CHOOSE j \in hit : TRUE
            IN [olayer EXCEPT ![i] =
                   [fid |-> feat.fid,
                    geom |-> IF unionOK THEN olayer[i].geom \cup feat.geom ELSE {},
                    null |-> ~unionOK,
                    src |-> olayer[i].src \cup {stem}]]
       ELSE Append(olayer, [fid |-> feat.fid, geom |-> feat.geom,
                            null |-> FALSE, src |-> {stem}])

\* the loop over the features of an input layer (lines 191-224).
\* unionNull: the FIDs of the input features for which the call of Union
\* returns null
RECURSIVE CopyFeatures(_, _, _, _)
CopyFeatures(olayer, ilayer, stem, unionNull) ==
    IF ilayer = <<>> THEN olayer
    ELSE CopyFeatures(MergeFeature(olayer, Head(ilayer), stem,
                                   Head(ilayer).fid \notin unionNull),
                      Tail(ilayer), stem, unionNull)

\* the calls of Union in the copy of an input layer: the FIDs the output
\* layer holds already
UnionCalls(olayer, ilayer) ==
    {ilayer[i].fid : i \in 1..Len(ilayer)} \cap {olayer[j].fid : j \in 1..Len(olayer)}

\* the outcomes of the calls of Union for the features of one layer
NullsOf(unionNull, name) == {c[2] : c \in {d \in unionNull : d[1] = name}}

\* StealGeometry of an output feature left without geometry returns null
MergeDerefsNull(olayer, ilayer) ==
    \E i \in 1..Len(ilayer), j \in 1..Len(olayer) :
        olayer[j].fid = ilayer[i].fid /\ olayer[j].null

\* OGRLayer::Clip(method, result): each input feature intersected with the
\* union of the method layer; empty intersections are dropped
RECURSIVE ClipUnmasked(_, _, _, _)
ClipUnmasked(ilayer, method, olayer, stem) ==
    IF ilayer = <<>> THEN olayer
    ELSE ClipUnmasked(Tail(ilayer), method,
             Append(olayer, [fid |-> Len(olayer), geom |-> Head(ilayer).geom,
                             null |-> FALSE, src |-> {stem}]), stem)

RECURSIVE Clip(_, _, _, _)
Clip(ilayer, method, olayer, stem) ==
    IF ilayer = <<>> THEN olayer
    ELSE LET inter == Head(ilayer).geom \cap UnionAll(method)
         IN Clip(Tail(ilayer), method,
                 IF inter = {} THEN olayer
                 ELSE Append(olayer, [fid |-> Len(olayer), geom |-> inter,
                                      null |-> FALSE, src |-> {stem}]),
                 stem)

\* OGRLayer::Erase(method, result): each input feature minus every method
\* feature; empty differences are dropped
Erase(input, method) == {g \ UnionAll(method) : g \in input} \ {{}}

\* every M_COVR feature is copied, whatever its CATCOV
copy_all_coverage(file) ==
    {file.M_COVR[i].geom : i \in 1..Len(file.M_COVR)}

\* copy_chart_coverage: the geometries copied to the coverage layer
copy_chart_coverage(file) ==
    LET covr == CoverageAvailable(file.M_COVR)
    IN {covr[i].geom : i \in 1..Len(covr)}

\* a layer the chart does not carry ends the layer loop
RECURSIVE ProcessLayersStopAtMissing(_, _, _, _, _, _, _)
ProcessLayersStopAtMissing(o, file, stem, layers, i, clip, unionNull) ==
    IF i > Len(layers) \/ layers[i] \notin DOMAIN file.layers THEN o
    ELSE LET name == layers[i]
             next == IF name \in MergeLayers
                     THEN [o EXCEPT ![name] =
                              CopyFeatures(o[name], file.layers[name], stem,
                                           NullsOf(unionNull, name))]
                     ELSE [o EXCEPT ![name] =
                              Clip(file.layers[name], clip, o[name], stem)]
         IN ProcessLayersStopAtMissing(next, file, stem, layers, i + 1, clip, unionNull)

\* lines 163-241: the layer loop for one chart.  unionNull: the calls of
\* Union that return null, each a layer name and a FID
RECURSIVE ProcessLayers(_, _, _, _, _, _, _)
ProcessLayers(o, file, stem, layers, i, clip, unionNull) ==
    IF i > Len(layers) THEN o
    ELSE LET name == layers[i]
             next == IF name \notin DOMAIN file.layers THEN o
                     ELSE IF name \in MergeLayers
                     THEN [o EXCEPT ![name] =
                              CopyFeatures(o[name], file.layers[name], stem,
                                           NullsOf(unionNull, name))]
                     ELSE [o EXCEPT ![name] =
                              Clip(file.layers[name], clip, o[name], stem)]
         IN ProcessLayers(next, file, stem, layers, i + 1, clip, unionNull)

\* line 257: all coverage accounted for
NeverStop(clip) == FALSE

StopCondition(clip) == clip = {}

\* line 264: the value export_data returns after the chart loop
ReturnIfCovered(clip) == clip = {}

ExportResult(clip) == TRUE

-----------------------------------------------------------------------------
(* Renderer: enc_renderer::render                                          *)

\* line 97: styles_.find(style_name) != styles_.end()
AnyStyle(styles, name) == TRUE

StyleKnown(styles, name) == name \in DOMAIN styles

\* styles_[style_name] (std::map::operator[]: a missing key reads as an
\* empty style) and the layer names collected from it
LayersOf(styles, name) == IF name \in DOMAIN styles THEN styles[name] ELSE <<>>

\* a feature without geometry reaches geo->getGeometryType() in render
RenderDerefsNull(o) ==
    \E l \in DOMAIN o : \E i \in 1..Len(o[l]) : o[l][i].null

-----------------------------------------------------------------------------
(* Inputs                                                                  *)

StyleNames == {"default", "nosuch"}

DecDigits == <<"0", "1", "2", "3", "4", "5", "6", "7", "8", "9">>
IsDigit(c) == \E v \in 1..10 : DecDigits[v] = c
DigitValue(c) == (CHOOSE v \in 1..10 : DecDigits[v] = c) - 1

\* isspace in the "C" locale, as strtol and strtoul skip it: the blank, \t,
\* \n, \v, \f and \r
VerticalTab == ""
WhiteSpace == {" ", "\t", "\n", VerticalTab, "\f", "\r"}
IsSpace(c) == c \in WhiteSpace

\* number of white-space characters from position i on
RECURSIVE SpaceRun(_, _)
SpaceRun(code, i) ==
    IF i <= Len(code) /\ IsSpace(code[i]) THEN 1 + SpaceRun(code, i + 1) ELSE 0

\* a sign stands at this position
Signed(code, sign) == sign <= Len(code) /\ code[sign] \in {"+", "-"}

\* number of decimal digits from position i on
RECURSIVE DigitRun(_, _)
DigitRun(token, i) ==
    IF i <= Len(token) /\ IsDigit(token[i]) THEN 1 + DigitRun(token, i + 1) ELSE 0

\* the largest value of an int
INT_MAX == 2147483647

\* the int a sign and a run of decimal digits denote, digit by digit; ok is
\* false when the value is no int
RECURSIVE Accumulate(_, _)
Accumulate(digits, negative) ==
    IF digits = <<>> THEN [ok |-> TRUE, value |-> 0]
    ELSE LET front == Accumulate(SubSeq(digits, 1, Len(digits) - 1), negative)
             last == DigitValue(digits[Len(digits)])
             most == INT_MAX \div 10
         IN IF ~front.ok \/ Abs(front.value) > most
               \/ (Abs(front.value) = most
                      /\ last > (INT_MAX % 10) + (IF negative THEN 1 ELSE 0))
            THEN [ok |-> FALSE, value |-> 0]
            ELSE [ok |-> TRUE,
                  value |-> IF negative THEN (front.value * 10) - last
                            ELSE (front.value * 10) + last]

\* std::stoi(token) (lines 77-79): white space, an optional sign, decimal
\* digits; what follows the digits is ignored.  No digit throws
\* std::invalid_argument, a value that is no int std::out_of_range
StoiEnd(token, sign, first, n) ==
    LET number == Accumulate(SubSeq(token, first, first + n - 1),
                             Signed(token, sign) /\ token[sign] = "-")
    IN IF n = 0 THEN [throw |-> "invalid_argument", value |-> 0]
       ELSE IF ~number.ok THEN [throw |-> "out_of_range", value |-> 0]
       ELSE [throw |-> "none", value |-> number.value]

StoiSign(token, sign) ==
    LET first == IF Signed(token, sign) THEN sign + 1 ELSE sign
    IN StoiEnd(token, sign, first, DigitRun(token, first))

stoi(token) == StoiSign(token, SpaceRun(token, 1) + 1)

\* a number as a request writes it
RECURSIVE Decimal(_)
Decimal(n) ==
    IF n < 10 THEN <<DecDigits[n + 1]>>
    ELSE Append(Decimal(n \div 10), DecDigits[(n % 10) + 1])

\* string_split of the URL "/style/z/y/x": the text before the first slash
\* and the four tokens between and after the slashes
URL(style, z, y, x) == <<"", style, z, y, x>>

\* URLs of tiles, in a loaded and in an unknown style
TileURLs ==
    {URL(style, Decimal(t.z), Decimal(t.y), Decimal(t.x)) :
        style \in StyleNames, t \in Tiles}

\* URLs that name no tile: a token short, a token too many, a zoom that is
\* no number, a zoom that is no int; and URLs that name a tile with a zoom
\* followed by letters and with a column behind white space
OddURLs ==
    { <<"", "default", Decimal(7), Decimal(0)>>,
      <<"", "default", Decimal(7), Decimal(0), Decimal(0), Decimal(0)>>,
      URL("default", <<"x">>, Decimal(0), Decimal(0)),
      URL("default", Decimal(99999) \o Decimal(999999), Decimal(0), Decimal(0)),
      URL("default", <<"7", "x">>, Decimal(0), Decimal(0)),
      URL("default", Decimal(13), Decimal(0), <<"\t">> \o Decimal(GridW - 1)) }

URLs == TileURLs \cup OddURLs

\* lines 77-79 for every URL of five tokens: the three conversions
Converted ==
    [url \in {u \in URLs : Len(u) = 5} |-> [i \in 3..5 |-> stoi(url[i])]]

StoiThrows(url) == \E i \in 3..5 : Converted[url][i].throw # "none"

\* lines 76-79: the style name and the tile address of a URL of five tokens
Parsed(url) ==
    [style |-> url[2], z |-> Converted[url][3].value,
     bbox |-> TileEnvelope(Converted[url][5].value, Converted[url][4].value,
                           Converted[url][3].value)]

Requests == {Parsed(url) : url \in {u \in URLs : Len(u) = 5 /\ ~StoiThrows(u)}}
NoRequest == [style |-> "", z |-> 0,
              bbox |-> [MinX |-> 0, MaxX |-> 0, MinY |-> 0, MaxY |-> 0]]

LoadedStyles == [default |-> <<"LNDARE", "DEPARE">>]

\* chart roots with NumCharts well-formed charts, stems 1..NumCharts
GoodRoots == [1..NumCharts -> GoodFiles]

\* no connection thread, no dataset, no tile, no coordinate
NoThreads == [t \in {} |-> 0]
NoDatasets == [h \in {} |-> 0]
NoTile == [MinX |-> 0, MaxX |-> 0, MinY |-> 0, MaxY |-> 0, size |-> 0, side |-> 0]
NoPoint == [x |-> 0, y |-> 0]

\* the cairo context as cairo_create leaves it: no dashes
NoContext == [dash |-> <<>>]

NoCharts == [k \in {} |-> 0]
NoCache == [k \in {} |-> 0]

\* the index load_charts builds from a root of well-formed charts, no cache
IndexOf(root) == [k \in DOMAIN root |-> load_chart_disk(Entry("ENC_ROOT", k, root[k]))]

\* the cache directory load_charts leaves then: load_chart_disk ends with
\* save_chart_cache (line 429), one record for every chart
CacheOf(root) == [k \in DOMAIN root |-> CacheRecord(IndexOf(root)[k])]

\* what the charts of a root can be when a request opens them: the files
\* load_charts indexed, or with another file in the place of the first
\* (when that is the inland chart of scale 5000), without M_COVR layer or
\* with a CATCOV that is missing or no integer
OnDisk(r) ==
    {r} \cup {[r EXCEPT ![1] = ChartFile(r[1].dsid, r[1].scale, c, r[1].content)] :
                 c \in IF r[1] = ChartFile("ok", 5000, "first", "inland")
                       THEN {"absent", "catcov_missing", "catcov_not_integer"}
                       ELSE {}}

\* the file GDALDataset::Open finds behind chart->path
FileOf(root, path) ==
    S57(root[CHOOSE i \in 1..Len(root) : PathOf(root[i]) = path].file)

-----------------------------------------------------------------------------
(* Tile server: state after startup, one request at a time                 *)

Init ==
    /\ \E r \in GoodRoots : \E disk \in OnDisk(r) :
          /\ enc_root = [k \in DOMAIN disk |-> Entry("ENC_ROOT", k, disk[k])]
          /\ charts_ = IndexOf(r)
          /\ cache = CacheOf(r)
    /\ pos = NumCharts + 1
    /\ styles_ = LoadedStyles
    /\ proc = "running"
    /\ error = "none"
    /\ pc = "idle"
    /\ req = NoRequest
    /\ selected = <<>>
    /\ idx = 0
    /\ ods = NoLayers
    /\ clip_layer = {}
    /\ opened = <<>>
    /\ result = "none"
    /\ response = 0
    /\ conn = NoThreads /\ datasets = NoDatasets
    /\ style_dir = <<>>
    /\ surface = <<>> /\ wm = NoTile /\ point = NoPoint /\ cr = NoContext /\ multi_poly = <<>>

World == <<enc_root, cache, pos, charts_, styles_, Threads, StyleFiles, Drawing>>

\* an uncaught exception (or a null dereference) ends the process: the
\* request gets no reply and the memory of the process is gone
Terminate(msg) ==
    /\ proc' = "terminated"
    /\ error' = msg
    /\ pc' = "dead"
    /\ req' = NoRequest
    /\ selected' = <<>> /\ idx' = 0 /\ ods' = NoLayers /\ clip_layer' = {}
    /\ opened' = <<>>
    /\ result' = "none"
    /\ response' = 0
    /\ UNCHANGED World

\* request_handler -> render -> export_data up to the chart loop
request_handler(url) ==
    /\ proc = "running" /\ pc = "idle"
    /\ opened' = <<>>
    /\ IF Len(url) # 5
       THEN \* lines 70-75: the handler replies 400 "Invalid URL"
            /\ req' = NoRequest
            /\ pc' = "reply"
            /\ response' = 400
            /\ result' = "none"
            /\ ods' = NoLayers
            /\ UNCHANGED <<selected, idx, clip_layer>>
       ELSE /\ ~StoiThrows(url)
            /\ req' = Parsed(url)
            /\ IF ~StyleKnown(styles_, Parsed(url).style)
               THEN \* render returns false, the handler replies 404
                    /\ pc' = "reply"
                    /\ response' = 404
                    /\ result' = "none"
                    /\ ods' = NoLayers
                    /\ UNCHANGED <<selected, idx, clip_layer>>
               ELSE LET r == Parsed(url)
                        layers == LayersOf(styles_, r.style)
                        sel == SelectCharts(charts_, r.bbox, ScaleMin(r.z))
                    IN /\ ods' = OutputAfterSelect(layers, sel)
                       /\ IF sel = <<>>
                          THEN \* export_data returns false, the handler replies 404
                               /\ pc' = "reply"
                               /\ response' = 404
                               /\ result' = "false"
                               /\ UNCHANGED <<selected, idx, clip_layer>>
                          ELSE /\ selected' = SortByScale(sel, charts_)
                               /\ idx' = 1
                               /\ clip_layer' = {BBoxPolygon(r.bbox)}
                               /\ pc' = "export"
                               /\ result' = "none"
                               /\ response' = 0
    /\ UNCHANGED <<World, proc, error>>

\* std::stoi throws on the zoom, row or column of the URL (lines 77-79):
\* nothing between it and the worker thread catches
request_handler_stoi(url) ==
    /\ proc = "running" /\ pc = "idle"
    /\ Len(url) = 5
    /\ StoiThrows(url)
    /\ Terminate("stoi")

\* what ends export_data between the selection and the chart loop: an
\* exception of create_temp_dataset, create_layer or create_bbox_feature, or
\* the call of CreateLayer on the null pointer that render passes on when
\* the Memory driver created no dataset (part_003 lines 142-143)
BeginErrors ==
    {"Cannot create temporary dataset", "Cannot create dataset layer",
     "Cannot create layer feature", "SIGSEGV"}

\* export_data does not reach the chart loop (lines 136-150)
request_handler_throw(url, msg) ==
    /\ proc = "running" /\ pc = "idle"
    /\ Len(url) = 5
    /\ ~StoiThrows(url)
    /\ StyleKnown(styles_, Parsed(url).style)
    /\ SelectCharts(charts_, Parsed(url).bbox, ScaleMin(Parsed(url).z)) # <<>>
    /\ msg \in BeginErrors
    /\ Terminate(msg)

\* the layers of a style that export_data copies whole from this chart
CopiedLayers(file, layers) ==
    {layers[i] : i \in 1..Len(layers)} \cap MergeLayers \cap DOMAIN file.layers

\* the layers of a style that export_data clips from this chart
ClippedLayers(file, layers) ==
    ({layers[i] : i \in 1..Len(layers)} \ MergeLayers) \cap DOMAIN file.layers

\* the calls of Union in one iteration of the chart loop
MergeCalls(file, layers, o) ==
    UNION {{<<l, fid>> : fid \in UnionCalls(o[l], file.layers[l])} :
              l \in CopiedLayers(file, layers)}

\* every call of Union an iteration can make on the charts of the model
AllMergeCalls ==
    UNION {{<<l, f.layers[l][i].fid>> : i \in 1..Len(f.layers[l])} :
              <<f, l>> \in {p \in {S57(g) : g \in GoodFiles} \X MergeLayers :
                               p[2] \in DOMAIN p[1].layers}}

\* one iteration of the chart loop of export_data (lines 153-262)
export_chart(unionNull) ==
    /\ proc = "running" /\ pc = "export"
    /\ LET stem == selected[idx]
           file == FileOf(enc_root, charts_[stem].path)
           layers == LayersOf(styles_, req.style)
           left == Erase(clip_layer, copy_chart_coverage(file))
       IN /\ \A l \in CopiedLayers(file, layers) :
                 ~MergeDerefsNull(ods[l], file.layers[l])
          /\ unionNull \subseteq MergeCalls(file, layers, ods)
          /\ CoverageError(file) = "ok"
          /\ opened' = Append(opened, stem)
          /\ ods' = ProcessLayers(ods, file, stem, layers, 1, clip_layer, unionNull)
          /\ clip_layer' = left
          /\ IF StopCondition(left) \/ idx = Len(selected)
             THEN /\ pc' = "exported"
                  /\ result' = IF ExportResult(left) THEN "true" ELSE "false"
                  /\ idx' = idx
             ELSE /\ pc' = "export"
                  /\ result' = "none"
                  /\ idx' = idx + 1
    /\ UNCHANGED <<World, proc, error, req, selected, response>>

\* a place in an iteration of the chart loop where it can end, and how:
\* layer 0 is the call of Open, layer i the layer i of the style, at its
\* feature feat (0: before the first); the three places behind the last
\* layer are copy_chart_coverage (at feature feat of M_COVR), Erase, and the
\* two calls of clear_layer (at feature feat of the coverage layer, or
\* behind its last: at the feature of the result layer)
Site(msg, layer, feat) == [msg |-> msg, layer |-> layer, feat |-> feat]

\* the place s comes before the place t in an iteration
Earlier(s, t) == s.layer < t.layer \/ (s.layer = t.layer /\ s.feat < t.feat)

\* the places of the layers of the style that this chart carries
PlacesOf(file, layers, names) ==
    {i \in 1..Len(layers) : layers[i] \in names \cap DOMAIN file.layers}

\* line 212: Union is called on the null pointer StealGeometry returns for
\* an output feature left without geometry
DerefSites(file, layers, o) ==
    UNION {{Site("SIGSEGV", i, j) :
               j \in {k \in 1..Len(file.layers[layers[i]]) :
                         MergeDerefsNull(o[layers[i]], <<file.layers[layers[i]][k]>>)}} :
              i \in PlacesOf(file, layers, MergeLayers)}

\* lines 163-241: the exceptions of the layer loop
LayerSites(file, layers) ==
    {Site("Cannot open output layer (OGR interleaving issue?)", i, 0) :
        i \in 1..Len(layers)}
    \cup UNION {{Site("Cannot copy feature to output layer", i, j) :
                    j \in 1..Len(file.layers[layers[i]])} :
                   i \in PlacesOf(file, layers, MergeLayers)}
    \cup {Site("Cannot perform layer clip operation", i, 0) :
             i \in PlacesOf(file, layers, DOMAIN file.layers \ MergeLayers)}

\* lines 244-251 behind n layers: the exceptions of copy_chart_coverage (a
\* feature is created for every "coverage available" feature that stands
\* before the first feature with a bad CATCOV), of Erase and of clear_layer
CoverageSites(file, n) ==
    LET bad == FirstBadCovr(file.M_COVR, 1)
        read == IF bad = 0 THEN Len(file.M_COVR) ELSE bad - 1
    IN IF ~file.has_M_COVR THEN {Site("Cannot open M_COVR layer", n + 1, 0)}
       ELSE {Site("Cannot create coverage feature", n + 1, k) :
                k \in {m \in 1..read : file.M_COVR[m].CATCOV = 1}}
            \cup (IF bad # 0 THEN {Site(CoverageError(file), n + 1, bad)}
                  ELSE {Site("Cannot perform layer erase operation", n + 2, 0)}
                       \cup {Site("Cannot delete layer feature", n + 3, k) :
                                k \in 1..(Len(CoverageAvailable(file.M_COVR)) + 1)})

\* the places where one iteration of the chart loop can end: those of its
\* exceptions and of its null dereference that no null dereference precedes
ThrowSites(file, layers, o) ==
    LET deref == DerefSites(file, layers, o)
    IN {s \in {Site("Cannot open input data set", 0, 0)} \cup LayerSites(file, layers)
                 \cup CoverageSites(file, Len(layers)) \cup deref :
           \A d \in deref : ~Earlier(d, s) /\ (Earlier(s, d) \/ s = d)}

\* an iteration of the chart loop that does not complete
export_throw(msg) ==
    /\ proc = "running" /\ pc = "export"
    /\ LET stem == selected[idx]
           file == FileOf(enc_root, charts_[stem].path)
       IN \E s \in ThrowSites(file, LayersOf(styles_, req.style), ods) : s.msg = msg
    /\ Terminate(msg)

\* render after export_data returned (lines 144-337)
render_finish ==
    /\ proc = "running" /\ pc = "exported"
    /\ IF result = "false"
       THEN /\ response' = 404
            /\ pc' = "reply"
            /\ UNCHANGED <<World, proc, error, req, opened, result, ods,
                           selected, idx, clip_layer>>
       ELSE IF RenderDerefsNull(ods)
       THEN Terminate("SIGSEGV")
       ELSE /\ response' = 200
            /\ pc' = "reply"
            /\ ods' = NoLayers
            /\ UNCHANGED <<World, proc, error, req, opened, result,
                           selected, idx, clip_layer>>

\* request_reply: the response is queued and the worker is free again
request_reply ==
    /\ proc = "running" /\ pc = "reply"
    /\ pc' = "idle"
    /\ req' = NoRequest
    /\ selected' = <<>> /\ idx' = 0 /\ ods' = NoLayers /\ clip_layer' = {}
    /\ opened' = <<>>
    /\ result' = "none"
    /\ UNCHANGED <<World, proc, error, response>>

LoopErrors ==
    {"Cannot open input data set",
     "Cannot open output layer (OGR interleaving issue?)",
     "Cannot copy feature to output layer", "Cannot perform layer clip operation",
     "Cannot open M_COVR layer", "Feature does not have field \"CATCOV\"",
     "Feature field \"CATCOV\" is not an integer",
     "Cannot create coverage feature",
     "Cannot perform layer erase operation", "Cannot delete layer feature",
     "SIGSEGV"}

Next ==
    \/ \E url \in URLs : request_handler(url)
    \/ \E url \in URLs : request_handler_stoi(url)
    \/ \E url \in URLs, msg \in BeginErrors : request_handler_throw(url, msg)
    \/ \E unionNull \in SUBSET AllMergeCalls : export_chart(unionNull)
    \/ \E msg \in LoopErrors : export_throw(msg)
    \/ render_finish
    \/ request_reply

Spec == Init /\ [][Next]_vars

-----------------------------------------------------------------------------
(* Startup: enc_dataset::load_charts over the chart root                   *)

\* number of entries under the chart root
NumFiles == 2

\* chart files as the disk parse sees them: well-formed ones and one for
\* every way the parse fails
LoadFiles ==
    { ChartFile("ok", 5000, "first", "inland"),
      ChartFile("ok", 50000, "corners", "inland"),
      ChartFile("cannot_open", 0, "absent", "inland"),
      ChartFile("no_layer", 0, "first", "inland"),
      ChartFile("no_feature", 0, "first", "inland"),
      ChartFile("no_field", 0, "first", "inland"),
      ChartFile("not_integer", 0, "first", "inland"),
      ChartFile("ok", 5000, "none", "inland"),
      ChartFile("ok", 5000, "absent", "inland"),
      ChartFile("ok", 5000, "catcov_missing", "inland"),
      ChartFile("ok", 5000, "catcov_not_integer", "inland") }

Dirs == {"ENC_ROOT/a", "ENC_ROOT/b"}
Stems == {1, 2}

\* entries of the root: chart files (*.000) and one file that is no chart
LoadEntries ==
    {Entry(t[1], t[2], t[3]) : t \in Dirs \X Stems \X LoadFiles}
    \cup {[dir |-> "ENC_ROOT/a", stem |-> 1, ext |-> ".txt",
           file |-> ChartFile("cannot_open", 0, "absent", "inland")]}

\* directory listings: NumFiles entries with pairwise different paths
Listings ==
    {l \in [1..NumFiles -> LoadEntries] :
        \A i, j \in 1..NumFiles : i # j => PathOf(l[i]) # PathOf(l[j])}

\* handle.good() after the six extractions (line 346): a missing field sets
\* failbit, as does a field that is no number; a last field that ends the
\* text sets eofbit
StreamGood(rec) ==
    /\ rec.readable /\ rec.fields = 6 /\ rec.eol
    /\ Numeric(rec.meta.MinX) /\ Numeric(rec.meta.MaxX)
    /\ Numeric(rec.meta.MinY) /\ Numeric(rec.meta.MaxY)

\* what an earlier run that parsed a chart at this path left in the cache
OldMeta(dir) ==
    load_chart_disk(Entry(dir, 1, ChartFile("ok", 5000, "first", "inland")))

\* the file of chart 1 in the cache directory at startup: written for the
\* chart of the first or of the second directory, for a chart without
\* coverage, cut short, without the final newline, or not readable
OldFiles ==
    { CacheRecord(OldMeta("ENC_ROOT/a")),
      CacheRecord(OldMeta("ENC_ROOT/b")),
      CacheRecord(load_chart_disk(Entry("ENC_ROOT/a", 1, ChartFile("ok", 5000, "none", "inland")))),
      CacheFile(OldMeta("ENC_ROOT/a"), TRUE, 3, FALSE),
      CacheFile(OldMeta("ENC_ROOT/a"), TRUE, 6, FALSE),
      CacheFile(OldMeta("ENC_ROOT/a"), FALSE, 6, TRUE) }

\* the cache directory at startup: empty (or absent), or holding one file
Caches == {NoCache} \cup {[k \in {1} |-> f] : f \in OldFiles}

\* load_chart_cache ignores the record when its path differs
AnyPath(c, e) ==
    /\ e.stem \in DOMAIN c
    /\ StreamGood(c[e.stem])

\* load_chart_cache: the record exists, reads completely and names this path
CacheHit(c, e) ==
    /\ e.stem \in DOMAIN c
    /\ StreamGood(c[e.stem])
    /\ Extracted(c[e.stem].meta).path = PathOf(e)

\* charts_[stem] = next
Indexed(charts, stem, meta) ==
    [k \in DOMAIN charts \cup {stem} |-> IF k = stem THEN meta ELSE charts[k]]

\* save_chart_cache: the record is written unless the cache is unwritable.
\* std::ofstream (line 313) writes the six fields into the file of the
\* chart's identifier; a file that is there keeps its permissions, so that
\* a record that could not be read cannot be read afterwards either
Saved(c, stem, meta, writable) ==
    IF writable
    THEN [k \in DOMAIN c \cup {stem} |->
             IF k # stem THEN c[k]
             ELSE CacheFile(meta, stem \notin DOMAIN c \/ c[stem].readable, 6, TRUE)]
    ELSE c

InitLoad ==
    /\ enc_root \in Listings
    /\ cache \in Caches
    /\ pos = 1
    /\ charts_ = NoCharts
    /\ styles_ = [k \in {} |-> <<>>]
    /\ proc = "starting"
    /\ error = "none"
    /\ pc = "idle"
    /\ req = NoRequest
    /\ selected = <<>>
    /\ idx = 0
    /\ ods = NoLayers
    /\ clip_layer = {}
    /\ opened = <<>>
    /\ result = "none"
    /\ response = 0
    /\ conn = NoThreads /\ datasets = NoDatasets
    /\ style_dir = <<>>
    /\ surface = <<>> /\ wm = NoTile /\ point = NoPoint /\ cr = NoContext /\ multi_poly = <<>>

Serving == <<styles_, pc, req, selected, idx, ods, clip_layer, result, response,
             Threads, StyleFiles, Drawing>>

\* one step of the loop of load_charts (lines 70-76) whose load_chart
\* returns: the entry is no chart, or it loads from cache, or from disk
load_chart(writable) ==
    /\ proc = "starting" /\ pos <= Len(enc_root)
    /\ LET e == enc_root[pos]
       IN IF e.ext # ".000"
          THEN UNCHANGED <<charts_, cache, opened>>
          ELSE IF CacheHit(cache, e)
          THEN /\ charts_' = Indexed(charts_, e.stem, Extracted(cache[e.stem].meta))
               /\ UNCHANGED <<cache, opened>>
          ELSE /\ DiskParseError(S57(e.file)) = "ok"
               /\ opened' = Append(opened, PathOf(e))
               /\ charts_' = Indexed(charts_, e.stem, load_chart_disk(e))
               /\ cache' = Saved(cache, e.stem, load_chart_disk(e), writable)
    /\ pos' = pos + 1
    /\ UNCHANGED <<enc_root, proc, error, Serving>>

\* load_chart_disk throws: nothing between it and main catches
load_chart_throw ==
    /\ proc = "starting" /\ pos <= Len(enc_root)
    /\ LET e == enc_root[pos]
       IN /\ e.ext = ".000"
          /\ ~CacheHit(cache, e)
          /\ DiskParseError(S57(e.file)) # "ok"
          /\ opened' = Append(opened, PathOf(e))
          /\ error' = DiskParseError(S57(e.file))
    /\ proc' = "terminated"
    /\ UNCHANGED <<enc_root, cache, pos, charts_, Serving>>

\* std::filesystem::create_directories(cache_) (line 305) reports a failure
\* of the operating system by throwing std::filesystem::filesystem_error:
\* the chart is indexed already (line 428) and nothing catches.  A cache
\* directory without files may be one that does not exist.
save_chart_cache_throw ==
    /\ proc = "starting" /\ pos <= Len(enc_root)
    /\ DOMAIN cache = {}
    /\ LET e == enc_root[pos]
       IN /\ e.ext = ".000"
          /\ ~CacheHit(cache, e)
          /\ DiskParseError(S57(e.file)) = "ok"
          /\ opened' = Append(opened, PathOf(e))
          /\ charts_' = Indexed(charts_, e.stem, load_chart_disk(e))
    /\ error' = "filesystem error: cannot create directories"
    /\ proc' = "terminated"
    /\ UNCHANGED <<enc_root, cache, pos, Serving>>

\* load_charts returns (line 78)
load_charts_done ==
    /\ proc = "starting" /\ pos > Len(enc_root)
    /\ proc' = "running"
    /\ UNCHANGED <<enc_root, cache, pos, charts_, error, opened, Serving>>

NextLoad ==
    \/ \E writable \in BOOLEAN : load_chart(writable)
    \/ load_chart_throw
    \/ save_chart_cache_throw
    \/ load_charts_done

SpecLoad == InitLoad /\ [][NextLoad]_vars

\* chart files of the runs over one cache directory: a chart at the origin
\* of the grid, one far from it, one without coverage, and one the disk
\* parse rejects
CacheCharts ==
    { ChartFile("ok", 5000, "first", "inland"),
      ChartFile("ok", 50000, "offshore", "inland"),
      ChartFile("ok", 5000, "none", "inland"),
      ChartFile("no_layer", 0, "first", "inland") }

CacheListings ==
    {l \in [1..NumFiles -> {Entry(t[1], t[2], t[3]) : t \in Dirs \X Stems \X CacheCharts}] :
        \A i, j \in 1..NumFiles : i # j => PathOf(l[i]) # PathOf(l[j])}

\* the first run starts on an empty cache directory
InitCache ==
    /\ enc_root \in CacheListings
    /\ cache = NoCache
    /\ pos = 1
    /\ charts_ = NoCharts
    /\ styles_ = [k \in {} |-> <<>>]
    /\ proc = "starting"
    /\ error = "none"
    /\ pc = "idle"
    /\ req = NoRequest
    /\ selected = <<>>
    /\ idx = 0
    /\ ods = NoLayers
    /\ clip_layer = {}
    /\ opened = <<>>
    /\ result = "none"
    /\ response = 0
    /\ conn = NoThreads /\ datasets = NoDatasets
    /\ style_dir = <<>>
    /\ surface = <<>> /\ wm = NoTile /\ point = NoPoint /\ cr = NoContext /\ multi_poly = <<>>

\* the program is started again: the chart root and the cache directory
\* are as the last run left them, the index is empty
restart ==
    /\ proc \in {"running", "terminated"}
    /\ proc' = "starting"
    /\ pos' = 1
    /\ charts_' = NoCharts
    /\ opened' = <<>>
    /\ error' = "none"
    /\ UNCHANGED <<enc_root, cache, Serving>>

\* enc_dataset::clear (lines 57-60), called between two calls of
\* load_charts: the index is emptied, the cache directory stays
clear ==
    /\ proc = "running"
    /\ charts_' = NoCharts
    /\ UNCHANGED <<enc_root, cache, pos, proc, error, opened, Serving>>

\* enc_dataset::set_cache_path (lines 49-52), called outside load_charts
\* with the path of a directory that holds no file: the records written so
\* far stay where they are and are no longer looked up
set_cache_path ==
    /\ (proc = "starting" /\ pos = 1) \/ proc = "running"
    /\ cache' = NoCache
    /\ UNCHANGED <<enc_root, pos, charts_, proc, error, opened, Serving>>

NextCache == NextLoad \/ restart \/ clear \/ set_cache_path

SpecCache == InitCache /\ [][NextCache]_vars

-----------------------------------------------------------------------------
(* Properties of the compositor and of the request path                    *)

Exporting == proc = "running" /\ pc \in {"export", "exported"}

ScaleOf(stem) == charts_[stem].scale
OpenedSet == {opened[i] : i \in 1..Len(opened)}
OpenedBefore(stem) ==
    {opened[i] : i \in {j \in 1..Len(opened) : \E k \in (j + 1)..Len(opened) : opened[k] = stem}}

\* what a chart declares as covered: its "coverage available" M_COVR features
DeclaredCoverage(stem) ==
    LET m == FileOf(enc_root, charts_[stem].path).M_COVR
    IN UNION {m[i].geom : i \in {j \in 1..Len(m) : m[j].CATCOV = 1}}

\* the coverage rectangle the index keeps for a chart
CoverageRectangle(stem) == BBoxPolygon(charts_[stem].bbox)

InputLayer(stem, l) ==
    LET f == FileOf(enc_root, charts_[stem].path)
    IN IF l \in DOMAIN f.layers THEN f.layers[l] ELSE <<>>

\* the charts of the index that match the request: scale at least the
\* minimum scale, coverage rectangle sharing a point with the bbox
Matching ==
    {k \in DOMAIN charts_ :
        /\ charts_[k].scale >= ScaleMin(req.z)
        /\ \E x \in XMarks, y \in YMarks :
              /\ req.bbox.MinX <= x /\ x <= req.bbox.MaxX
              /\ req.bbox.MinY <= y /\ y <= req.bbox.MaxY
              /\ charts_[k].bbox.MinX <= x /\ x <= charts_[k].bbox.MaxX
              /\ charts_[k].bbox.MinY <= y /\ y <= charts_[k].bbox.MaxY}

ClippedOutputLayers == DOMAIN ods \ MergeLayers
MergedOutputLayers == DOMAIN ods \cap MergeLayers

\* every feature of a clipped output layer comes from one chart, lies in the
\* bbox and lies outside Covered(d) of every chart d processed before it
ClippedOutside(Covered(_)) ==
    \A l \in ClippedOutputLayers : \A i \in 1..Len(ods[l]) :
        \E c \in OpenedSet :
            /\ ods[l][i].src = {c}
            /\ ods[l][i].geom \subseteq BBoxPolygon(req.bbox)
            /\ \A d \in OpenedBefore(c) : ods[l][i].geom \cap Covered(d) = {}

\* every feature of a processed chart is in the clipped output layer with
\* the part of its geometry that lies in the bbox and outside Covered(d) of
\* every chart d processed before
ClippedHolds(Covered(_)) ==
    \A l \in ClippedOutputLayers : \A c \in OpenedSet :
        \A n \in 1..Len(InputLayer(c, l)) :
            LET part == (InputLayer(c, l)[n].geom \cap BBoxPolygon(req.bbox))
                           \ UNION {Covered(d) : d \in OpenedBefore(c)}
            IN part # {} =>
                  \E i \in 1..Len(ods[l]) :
                      ods[l][i].src = {c} /\ ods[l][i].geom = part

\* C1 (as stated): in a layer that is not in the merge allow-list, the output
\* holds a processed chart's geometry in the bbox, and the geometry of a chart
\* processed later only outside the coverage rectangle of every chart
\* processed before it.
C1_OutsideCoverageRectangle ==
    Exporting => ClippedOutside(CoverageRectangle)

\* C1 (amended): in a layer that is not in the merge allow-list, the output
\* holds each processed chart's geometry exactly where it lies in the bbox
\* and outside the declared coverage (the "coverage available" M_COVR
\* features) of every chart processed before it; the most detailed chart's
\* geometry is held wherever it lies in the bbox.
C1_OutsideDeclaredCoverage ==
    Exporting => ClippedOutside(DeclaredCoverage) /\ ClippedHolds(DeclaredCoverage)

\* C1 witness: two charts processed, the second one contributed clipped
\* geometry next to the first one's
C1_Witness ==
    /\ pc = "exported" /\ Len(opened) = 2
    /\ ScaleOf(opened[1]) < ScaleOf(opened[2])
    /\ \E l \in ClippedOutputLayers :
          /\ \E i \in 1..Len(ods[l]) : ods[l][i].src = {opened[1]}
          /\ \E i \in 1..Len(ods[l]) :
                /\ ods[l][i].src = {opened[2]}
                /\ ods[l][i].geom # UNION {f.geom : f \in {InputLayer(opened[2], l)[n] :
                                              n \in 1..Len(InputLayer(opened[2], l))}}

\* C2: the charts export_data selects are exactly the indexed charts whose
\* scale is at least min_scale and whose coverage rectangle intersects the
\* bbox; only selected charts are opened; export_data returns false exactly
\* when no chart matches.
C2_SelectsExactlyMatching ==
    /\ Exporting => {selected[i] : i \in 1..Len(selected)} = Matching
                    /\ Len(selected) = Cardinality(Matching)
    /\ OpenedSet \subseteq Matching
    /\ (proc = "running" /\ pc = "reply" /\ req.style \in DOMAIN styles_)
          => (result = "false" <=> Matching = {})
    /\ Exporting => Matching # {}

\* C2 witness: a request for which one chart matches and another does not
C2_Witness ==
    /\ pc = "exported"
    /\ Matching # DOMAIN charts_
    /\ \E k \in DOMAIN charts_ \ Matching : charts_[k].scale >= ScaleMin(req.z)

\* C3: charts are processed in ascending compilation scale: no chart is
\* processed before a matching chart of strictly smaller scale, and the
\* processing order is the order fixed when the request was selected.
C3_AscendingScaleOrder ==
    Exporting =>
        /\ \A i \in 1..Len(opened) : opened[i] = selected[i]
        /\ \A i \in 1..Len(selected) : \A d \in Matching :
              ScaleOf(d) < ScaleOf(selected[i])
                  => \E j \in 1..(i - 1) : selected[j] = d

\* C3 witness: two charts processed in the opposite of their index order
C3_Witness ==
    /\ pc = "exported" /\ Len(opened) >= 2
    /\ opened[1] > opened[2]
    /\ ScaleOf(opened[1]) < ScaleOf(opened[2])

\* C4: once the remaining coverage is empty after a chart was processed,
\* no further chart is opened and no feature is added to an output layer.
C4_StopsWhenCovered ==
    [][(proc = "running" /\ opened # <<>> /\ clip_layer = {})
          => /\ pc' # "export"
             /\ opened' = opened \/ opened' = <<>>
             /\ ods' = ods \/ ods' = NoLayers]_vars

\* C4 witness: the export ended with full coverage and a selected chart
\* that was never opened
C4_Witness ==
    /\ pc = "exported" /\ clip_layer = {}
    /\ Len(opened) < Len(selected)

\* the input features of the processed charts that carry identifier fid in
\* layer l
Occurrences(l, fid) ==
    {<<c, n>> \in OpenedSet \X (1..2) :
        n <= Len(InputLayer(c, l)) /\ InputLayer(c, l)[n].fid = fid}

InputFids(l) ==
    UNION {{InputLayer(c, l)[n].fid : n \in 1..Len(InputLayer(c, l))} : c \in OpenedSet}

\* C5: in a layer of the merge allow-list, a feature identifier that occurs
\* in two or more processed charts is in the output layer exactly once, with
\* the union of the geometries of all its occurrences, whenever export_data
\* has returned.
C5_MergedOnceWithUnion ==
    pc = "exported" =>
        \A l \in MergedOutputLayers : \A fid \in InputFids(l) :
            Cardinality(Occurrences(l, fid)) >= 2 =>
                /\ Cardinality({i \in 1..Len(ods[l]) : ods[l][i].fid = fid}) = 1
                /\ \A i \in 1..Len(ods[l]) :
                      ods[l][i].fid = fid =>
                          ods[l][i].geom =
                              UNION {InputLayer(o[1], l)[o[2]].geom : o \in Occurrences(l, fid)}

\* C6: export_data returns true whenever a chart was selected and nothing
\* failed, whether or not coverage is complete.
C6_SuccessWithPartialCoverage ==
    /\ pc = "exported" => result = "true"
    /\ (proc = "running" /\ pc = "reply" /\ opened # <<>>)
          => result = "true" /\ response = 200

\* C6 witness: export_data returned with coverage still missing
C6_Witness ==
    pc = "exported" /\ clip_layer # {} /\ result = "true"

\* C7: when no indexed chart matches, export_data returns false, no output
\* layer has been created and no chart was opened.
C7_NoDataCreatesNoLayers ==
    (proc = "running" /\ req.style \in DOMAIN styles_ /\ Matching = {}
        /\ req # NoRequest)
        => /\ pc = "reply" /\ result = "false" /\ response = 404
           /\ ods = NoLayers
           /\ opened = <<>>

\* C7 witness: a request answered "no data" although the index has a chart
\* of sufficient scale
C7_Witness ==
    /\ pc = "reply" /\ result = "false"
    /\ \E k \in DOMAIN charts_ : charts_[k].scale >= ScaleMin(req.z)

\* C8: a request for a style that is not loaded is answered "no data"
\* without a call of export_data and without opening a chart.
C8_UnknownStyleNoChartAccess ==
    (req # NoRequest /\ req.style \notin DOMAIN styles_)
        => /\ pc = "reply" /\ response = 404
           /\ result = "none"
           /\ selected = <<>> /\ opened = <<>> /\ ods = NoLayers

\* C8 witness: an unknown style requested where charts match the tile
C8_Witness ==
    /\ pc = "reply" /\ req.style \notin DOMAIN styles_
    /\ Matching # {}

GeometryErrors ==
    {"Cannot perform layer clip operation", "Cannot perform layer erase operation",
     "Cannot copy feature to output layer", "Cannot create coverage feature",
     "Cannot create layer feature", "Cannot create dataset layer",
     "Cannot create temporary dataset"}

\* C9: a failed geometry operation fails only that request, with a 404
\* reply, and the server process keeps running.
C9_FailureFailsOnlyTheRequest ==
    error \in GeometryErrors => proc = "running" /\ response = 404

DataIntegrityErrors ==
    {"Cannot open DSID layer", "Cannot read DSID feature",
     "Cannot open M_COVR layer",
     "Feature does not have field \"DSPM_CSCL\"",
     "Feature field \"DSPM_CSCL\" is not an integer",
     "Feature does not have field \"CATCOV\"",
     "Feature field \"CATCOV\" is not an integer"}

\* the chart entries of the root that a disk parse reads without error
Parseable ==
    {i \in 1..Len(enc_root) :
        enc_root[i].ext = ".000" /\ DiskParseError(S57(enc_root[i].file)) = "ok"}

\* C10: a data-integrity error of one chart is confined to that chart: when
\* loading has ended, every other chart of the root that parses is indexed.
C10_ParseFailureConfined ==
    (proc # "starting" /\ error \in DataIntegrityErrors \cup {"none"})
        => \A i \in Parseable : enc_root[i].stem \in DOMAIN charts_

-----------------------------------------------------------------------------
(* Chart index and metadata cache                                          *)

\* load_charts is at a chart entry
Loading ==
    proc = "starting" /\ pos <= Len(enc_root) /\ enc_root[pos].ext = ".000"

\* the cache holds a record for the chart's identifier that is readable,
\* has all six fields and stores exactly the requested path
FreshRecord(e) ==
    /\ e.stem \in DOMAIN cache
    /\ cache[e.stem].readable
    /\ cache[e.stem].fields = 6
    /\ Extracted(cache[e.stem].meta).path = PathOf(e)

\* C11: load_chart indexes a chart without opening it, from the cache, only
\* when the cache holds a complete record for its identifier whose stored
\* path is the requested path; in every other case (no record, unreadable
\* or truncated record, different stored path) the chart file is opened and
\* parsed from disk.
C11_CacheHitOnlyWhenFresh ==
    [][Loading =>
          LET e == enc_root[pos]
          IN /\ (pos' = pos + 1 /\ opened' = opened) =>
                    /\ FreshRecord(e)
                    /\ e.stem \in DOMAIN charts_'
                    /\ charts_'[e.stem] = Extracted(cache[e.stem].meta)
             /\ ~FreshRecord(e) => opened' = Append(opened, PathOf(e))]_vars

\* C11 witness: chart 1 of the first directory was indexed from its cache
\* record, and chart 1 of the second directory, for which the stored path
\* differs, was opened and parsed
C11_Witness ==
    /\ pos = 3 /\ Len(enc_root) >= 2
    /\ PathOf(enc_root[1]) = <<"ENC_ROOT/a", 1, ".000">>
    /\ opened = <<(<<"ENC_ROOT/b", 1, ".000">>)>>
    /\ 1 \in DOMAIN cache /\ Extracted(cache[1].meta).path = <<"ENC_ROOT/a", 1, ".000">>
    /\ 1 \in DOMAIN charts_ /\ charts_[1].path = <<"ENC_ROOT/b", 1, ".000">>

CacheErrors == {"filesystem error: cannot create directories"}

\* C12: a cache error is never fatal: startup does not end with a cache
\* error, the chart parsed from disk stays indexed and loading continues.
C12_CacheErrorNotFatal ==
    error \in CacheErrors => proc # "terminated"

\* C13: between two resets an entry of the chart index, once created, is
\* never changed or replaced by a later load_chart call.
C13_EntriesNeverReplaced ==
    [][\A k \in DOMAIN charts_ :
          k \in DOMAIN charts_' /\ charts_'[k] = charts_[k]]_vars

-----------------------------------------------------------------------------
(* Tile server with one thread per connection (MHD_USE_THREAD_PER_CONNECTION):*)
(* request_handler runs in every connection thread on the one enc_renderer,*)
(* without locks.  A step is what one thread does between two points where *)
(* another thread may run.                                                  *)

NumThreads == 2

\* addresses the Memory driver can hand out
MaxDatasets == 5
Handles == 1..MaxDatasets

\* a Memory dataset: its layers by name, each with its features
Dataset(layers) == [layers |-> layers]

\* the layers of the temporary dataset of export_data, by the variables that
\* point to them (lines 145-147), each with its geometries
TempLayers(clip, coverage, erased) ==
    [clip_layer |-> clip, coverage_layer |-> coverage, result_layer |-> erased]

\* the first n working layers as create_layer leaves them
WorkingLayers(n) ==
    [l \in {<<"clip_layer", "coverage_layer", "result_layer">>[i] : i \in 1..n} |-> {}]

\* one dataset object that every request uses
CreateShared(ds) == 1

\* GDALDriver::Create: a new dataset, at an address no live dataset has
Create(ds) ==
    CHOOSE h \in Handles \ DOMAIN ds : \A g \in Handles \ DOMAIN ds : h <= g

\* the heap once the dataset d lives at address h
Alloc(ds, h, d) == [g \in DOMAIN ds \cup {h} |-> IF g = h THEN d ELSE ds[g]]

\* GDALClose, or the destructor of the unique_ptr that holds a dataset
GDALClose(ds, h) == [g \in DOMAIN ds \ {h} |-> ds[g]]

\* std::map::operator[] (line 101): a missing key is inserted
MapIndex(styles, name) ==
    [k \in DOMAIN styles \cup {name} |-> IF k \in DOMAIN styles THEN styles[k] ELSE <<>>]

\* the locals of request_handler, render and export_data in one thread;
\* 0 is the null pointer
ThreadIdle ==
    [pc |-> "idle", req |-> NoRequest, selected |-> <<>>, idx |-> 0,
     opened |-> <<>>, result |-> "none", response |-> 0,
     tile_data |-> 0, temp |-> 0]

\* requests of the connection threads: for the second tile of the first
\* row in an unknown and in a loaded style, for a tile of a zoom for which
\* no chart is detailed enough; a URL a token short and one whose zoom is
\* no number
ThreadRequests ==
    { URL("nosuch", Decimal(13), Decimal(0), Decimal(1)),
      URL("default", Decimal(13), Decimal(0), Decimal(1)),
      URL("default", Decimal(7), Decimal(0), Decimal(0)),
      <<"", "default", Decimal(7), Decimal(0)>>,
      URL("default", <<"x">>, Decimal(0), Decimal(0)) }

\* the chart root of the connection threads: the first chart covers the
\* first column, every other chart the rest
ThreadRoot ==
    [k \in 1..NumCharts |->
        ChartFile("ok", 50000, IF k = 1 THEN "first" ELSE "right", "full")]

\* the style model of the connection threads: one style, of the depth areas
ThreadStyles == [default |-> <<"DEPARE">>]

InitThreads ==
    /\ enc_root = [k \in DOMAIN ThreadRoot |-> Entry("ENC_ROOT", k, ThreadRoot[k])]
    /\ charts_ = IndexOf(ThreadRoot)
    /\ cache = CacheOf(ThreadRoot)
    /\ pos = NumCharts + 1
    /\ styles_ = ThreadStyles
    /\ proc = "running"
    /\ error = "none"
    /\ pc = "idle"
    /\ req = NoRequest
    /\ selected = <<>>
    /\ idx = 0
    /\ ods = NoLayers
    /\ clip_layer = {}
    /\ opened = <<>>
    /\ result = "none"
    /\ response = 0
    /\ conn = [t \in 1..NumThreads |-> ThreadIdle]
    /\ datasets = NoDatasets
    /\ style_dir = <<>>
    /\ surface = <<>> /\ wm = NoTile /\ point = NoPoint /\ cr = NoContext /\ multi_poly = <<>>

\* what a connection thread neither reads nor writes
Single == <<pc, req, selected, idx, ods, clip_layer, opened, result, response>>
Startup == <<enc_root, cache, pos, charts_, StyleFiles, Drawing, Single>>

\* the datasets at these addresses
Restrict(ds, hs) == [h \in hs \cap DOMAIN ds |-> ds[h]]

\* an uncaught exception (or a null dereference) in one thread ends the
\* process with all its threads.  open: the datasets of the request that
\* nothing has closed when the exception has left render (the requests of
\* the other threads end with the process)
ThreadsTerminate(msg, open) ==
    /\ proc' = "terminated"
    /\ error' = msg
    /\ conn' = [t \in DOMAIN conn |-> ThreadIdle]
    /\ datasets' = open

\* request_handler -> render -> export_data up to the chart loop, in thread
\* t.  created: the Memory driver returns a dataset for tile_data (part_003
\* lines 142-143; the pointer is passed on untested)
thread_request(t, url, created) ==
    /\ proc = "running" /\ conn[t].pc = "idle"
    /\ IF Len(url) # 5
       THEN \* part_004 lines 70-75: 400 "Invalid URL"
            /\ conn' = [conn EXCEPT ![t] =
                  [ThreadIdle EXCEPT !.pc = "reply", !.response = 400]]
            /\ UNCHANGED <<styles_, datasets>>
       ELSE /\ ~StoiThrows(url)
            /\ IF ~StyleKnown(styles_, Parsed(url).style)
               THEN /\ conn' = [conn EXCEPT ![t] =
                          [ThreadIdle EXCEPT !.pc = "reply", !.req = Parsed(url),
                              !.response = 404]]
                    /\ UNCHANGED <<styles_, datasets>>
               ELSE /\ Cardinality(Handles \ DOMAIN datasets) >= 2
                    /\ LET r == Parsed(url)
                           styles == MapIndex(styles_, r.style)
                           layers == LayersOf(styles, r.style)
                           sel == SelectCharts(charts_, r.bbox, ScaleMin(r.z))
                           tile == Create(datasets)
                           ds == Alloc(datasets, tile, Dataset(OutputAfterSelect(layers, sel)))
                           temp == Create(ds)
                       IN /\ styles_' = styles
                          /\ IF sel = <<>>
                             THEN \* export_data returns false; render returns
                                  \* without closing tile_data
                                  /\ datasets' = IF created THEN ds ELSE datasets
                                  /\ conn' = [conn EXCEPT ![t] =
                                        [ThreadIdle EXCEPT !.pc = "reply", !.req = r,
                                            !.result = "false", !.response = 404]]
                             ELSE /\ created
                                  /\ datasets' = Alloc(ds, temp,
                                           Dataset(TempLayers({BBoxPolygon(r.bbox)}, {}, {})))
                                  /\ conn' = [conn EXCEPT ![t] =
                                        [ThreadIdle EXCEPT !.pc = "export", !.req = r,
                                            !.selected = SortByScale(sel, charts_),
                                            !.idx = 1, !.tile_data = tile, !.temp = temp]]
    /\ UNCHANGED <<Startup, proc, error>>

\* std::stoi throws in thread t (part_004 lines 77-79)
thread_request_stoi(t, url) ==
    /\ proc = "running" /\ conn[t].pc = "idle"
    /\ Len(url) = 5
    /\ StoiThrows(url)
    /\ ThreadsTerminate("stoi", NoDatasets)
    /\ UNCHANGED <<Startup, styles_>>

\* export_data does not reach the chart loop in thread t (lines 136-150).
\* created: the Memory driver returned a dataset for tile_data.  Nothing
\* catches the exception, so that nothing is unwound: what has been created
\* is there when the process ends.  n: the calls of create_layer that have
\* returned, first those for the layers of the style, then those for the
\* working layers
thread_request_throw(t, url, msg, n, created) ==
    /\ proc = "running" /\ conn[t].pc = "idle"
    /\ msg \in BeginErrors
    /\ msg # "Cannot create dataset layer" => n = 0
    /\ msg = "SIGSEGV" => ~created
    /\ msg \in {"Cannot create dataset layer", "Cannot create layer feature"} => created
    /\ Len(url) = 5
    /\ ~StoiThrows(url)
    /\ StyleKnown(styles_, Parsed(url).style)
    /\ Cardinality(Handles \ DOMAIN datasets) >= 2
    /\ SelectCharts(charts_, Parsed(url).bbox, ScaleMin(Parsed(url).z)) # <<>>
    /\ LET layers == LayersOf(styles_, Parsed(url).style)
           tile == Create(datasets)
           temp == Create(Alloc(datasets, tile, Dataset(NoLayers)))
           Both(o, w) == Alloc(Alloc(NoDatasets, tile, Dataset(o)), temp, Dataset(w))
       IN /\ n \in 0..(Len(layers) + 2)
          /\ msg = "SIGSEGV" => layers # <<>>
          /\ ThreadsTerminate(msg,
                CASE msg = "Cannot create temporary dataset" ->
                        \* line 474: no temporary dataset
                        IF created THEN Alloc(NoDatasets, tile, Dataset(NoLayers))
                        ELSE NoDatasets
                  [] msg = "SIGSEGV" ->
                        \* line 141: CreateLayer on the null pointer; the
                        \* temporary dataset is the one dataset created
                        Alloc(NoDatasets, tile, Dataset(NoLayers))
                  [] msg = "Cannot create dataset layer" ->
                        IF n < Len(layers)
                        THEN Both(CreateLayers(SubSeq(layers, 1, n)), NoLayers)
                        ELSE Both(CreateLayers(layers), WorkingLayers(n - Len(layers)))
                  [] OTHER ->
                        \* line 565: the clip layer is left without feature
                        Both(CreateLayers(layers), WorkingLayers(3)))
    /\ UNCHANGED <<Startup, styles_>>

\* one iteration of the chart loop of export_data in thread t
thread_export(t, unionNull) ==
    /\ proc = "running" /\ conn[t].pc = "export"
    /\ LET c == conn[t]
           stem == c.selected[c.idx]
           file == FileOf(enc_root, charts_[stem].path)
           layers == LayersOf(styles_, c.req.style)
           out == datasets[c.tile_data].layers
           clip == datasets[c.temp].layers.clip_layer
           left == Erase(clip, copy_chart_coverage(file))
           done == StopCondition(left) \/ c.idx = Len(c.selected)
           written == [datasets EXCEPT
                          ![c.tile_data] = Dataset(ProcessLayers(out, file, stem,
                                               layers, 1, clip, unionNull)),
                          ![c.temp] = Dataset(TempLayers(left, {}, {}))]
       IN /\ \A l \in CopiedLayers(file, layers) :
                 ~MergeDerefsNull(out[l], file.layers[l])
          /\ unionNull \subseteq MergeCalls(file, layers, out)
          /\ CoverageError(file) = "ok"
          /\ datasets' = IF done THEN GDALClose(written, c.temp) ELSE written
          /\ conn' = [conn EXCEPT ![t] =
                [c EXCEPT !.opened = Append(c.opened, stem),
                          !.pc = IF done THEN "exported" ELSE "export",
                          !.idx = IF done THEN c.idx ELSE c.idx + 1,
                          !.temp = IF done THEN 0 ELSE c.temp,
                          !.result = IF ~done THEN "none"
                                     ELSE IF ExportResult(left) THEN "true"
                                     ELSE "false"]]
    /\ UNCHANGED <<Startup, styles_, proc, error>>

\* render after export_data returned, in thread t
thread_finish(t) ==
    /\ proc = "running" /\ conn[t].pc = "exported"
    /\ LET c == conn[t]
       IN IF c.result = "false"
          THEN /\ conn' = [conn EXCEPT ![t] =
                      [c EXCEPT !.pc = "reply", !.response = 404, !.tile_data = 0]]
               /\ UNCHANGED <<datasets, proc, error>>
          ELSE IF RenderDerefsNull(datasets[c.tile_data].layers)
          THEN ThreadsTerminate("SIGSEGV", Restrict(datasets, {c.tile_data}))
          ELSE /\ conn' = [conn EXCEPT ![t] =
                      [c EXCEPT !.pc = "reply", !.response = 200, !.tile_data = 0]]
               /\ datasets' = GDALClose(datasets, c.tile_data)
               /\ UNCHANGED <<proc, error>>
    /\ UNCHANGED <<Startup, styles_>>

\* request_reply in thread t: the connection is served
thread_reply(t) ==
    /\ proc = "running" /\ conn[t].pc = "reply"
    /\ conn' = [conn EXCEPT ![t] = ThreadIdle]
    /\ UNCHANGED <<Startup, styles_, datasets, proc, error>>

\* the output dataset when an iteration of the chart loop is at the place
\* s: the layers before the place are done, and of a layer copied whole the
\* features before the place
WrittenAt(o, file, stem, layers, clip, unionNull, s) ==
    LET before == ProcessLayers(o, file, stem,
                      SubSeq(layers, 1, Min({s.layer - 1, Len(layers)})), 1,
                      clip, unionNull)
    IN IF s.layer \in 1..Len(layers) /\ s.feat > 1
       THEN [before EXCEPT ![layers[s.layer]] =
                CopyFeatures(@, SubSeq(file.layers[layers[s.layer]], 1, s.feat - 1),
                             stem, NullsOf(unionNull, layers[s.layer]))]
       ELSE before

\* the working layers when an iteration over n layers is at the place s:
\* copy_chart_coverage has copied the features before the place; Erase has
\* written nothing; clear_layer, after the swap of line 249, has deleted
\* the features before the place
WorkingAt(clip, file, n, s) ==
    LET avail == CoverageAvailable(file.M_COVR)
        copied == CoverageAvailable(SubSeq(file.M_COVR, 1, s.feat - 1))
        Geoms(covr, from, to) == {covr[m].geom : m \in from..to}
    IN IF s.layer <= n THEN TempLayers(clip, {}, {})
       ELSE IF s.layer = n + 1
       THEN TempLayers(clip, Geoms(copied, 1, Len(copied)), {})
       ELSE IF s.layer = n + 2
       THEN TempLayers(clip, copy_chart_coverage(file), {})
       ELSE TempLayers(Erase(clip, copy_chart_coverage(file)),
                       Geoms(avail, s.feat, Len(avail)), clip)

\* export_data throws in thread t (or calls Union on a null pointer): the
\* exception leaves the thread and ends the process with all its threads.
\* Nothing catches it, so that nothing is unwound: tile_data and the
\* temporary dataset are there, as the iteration has left them
thread_throw(t, s, unionNull) ==
    /\ proc = "running" /\ conn[t].pc = "export"
    /\ LET c == conn[t]
           stem == c.selected[c.idx]
           file == FileOf(enc_root, charts_[stem].path)
           layers == LayersOf(styles_, c.req.style)
           out == datasets[c.tile_data].layers
           clip == datasets[c.temp].layers.clip_layer
       IN /\ s \in ThrowSites(file, layers, out)
          /\ unionNull \subseteq MergeCalls(file, layers, out)
          /\ ThreadsTerminate(s.msg,
                [Restrict(datasets, {c.tile_data, c.temp}) EXCEPT
                    ![c.tile_data] = Dataset(WrittenAt(out, file, stem, layers,
                                                       clip, unionNull, s)),
                    ![c.temp] = Dataset(WorkingAt(clip, file, Len(layers), s))])
    /\ UNCHANGED <<Startup, styles_>>

\* most layers of a style of the connection threads
MaxLayers == Len(ThreadStyles.default)

\* the places where the iteration of a thread can end, and the calls of
\* Union it can make
SitesOf(c) ==
    IF c.pc # "export" THEN {}
    ELSE ThrowSites(FileOf(enc_root, charts_[c.selected[c.idx]].path),
                    LayersOf(styles_, c.req.style), datasets[c.tile_data].layers)

CallsOf(c) ==
    IF c.pc # "export" THEN {}
    ELSE MergeCalls(FileOf(enc_root, charts_[c.selected[c.idx]].path),
                    LayersOf(styles_, c.req.style), datasets[c.tile_data].layers)

NextThreads ==
    \/ \E t \in 1..NumThreads, url \in ThreadRequests, created \in BOOLEAN :
          thread_request(t, url, created)
    \/ \E t \in 1..NumThreads, url \in ThreadRequests : thread_request_stoi(t, url)
    \/ \E t \in 1..NumThreads, url \in ThreadRequests, msg \in BeginErrors :
          \E n \in IF msg = "Cannot create dataset layer" THEN 0..(MaxLayers + 2)
                    ELSE {0},
             created \in IF msg = "Cannot create temporary dataset" THEN BOOLEAN
                          ELSE {msg # "SIGSEGV"} :
             thread_request_throw(t, url, msg, n, created)
    \/ \E t \in 1..NumThreads : \E unionNull \in SUBSET CallsOf(conn[t]) :
          thread_export(t, unionNull)
    \/ \E t \in 1..NumThreads : thread_finish(t)
    \/ \E t \in 1..NumThreads : thread_reply(t)
    \/ \E t \in 1..NumThreads :
          \E s \in SitesOf(conn[t]), unionNull \in SUBSET CallsOf(conn[t]) :
             thread_throw(t, s, unionNull)

SpecThreads == InitThreads /\ [][NextThreads]_vars

\* the datasets a thread holds
Held(c) == {c.tile_data, c.temp} \ {0}

\* no dataset is held twice
HandlesDistinct ==
    \A t \in DOMAIN conn :
        /\ conn[t].tile_data # 0 => conn[t].tile_data # conn[t].temp
        /\ \A u \in DOMAIN conn \ {t} : Held(conn[t]) \cap Held(conn[u]) = {}

\* C14: under any interleaving of the connection threads the chart index
\* and the style model are never written after startup, no dataset is held
\* by two requests, and a step of one request leaves the datasets of every
\* other request as they were.
C14_RequestsShareNothing ==
    [][proc = "running" =>
          /\ charts_' = charts_ /\ styles_' = styles_
          /\ HandlesDistinct'
          /\ \A t \in DOMAIN conn :
                conn'[t] = conn[t] =>
                    \A h \in Held(conn[t]) :
                        h \in DOMAIN datasets' /\ datasets'[h] = datasets[h]]_vars

\* C14 witness: two requests are under way at once, one inside the chart
\* loop and one past it, each with charts copied to its own tile dataset
C14_Witness ==
    /\ DOMAIN conn = 1..NumThreads
    /\ conn[1].pc = "export" /\ conn[1].opened # <<>>
    /\ conn[2].pc = "exported"
    /\ \A t \in {1, 2} : datasets[conn[t].tile_data].layers["DEPARE"] # <<>>
    /\ datasets[conn[1].tile_data] # datasets[conn[2].tile_data]

-----------------------------------------------------------------------------
(* Drawing the features of a tile: the feature loop of enc_renderer::render *)
(* for depth areas and soundings.  Depths are given in decimeters: the     *)
(* number n stands for the depth n/10 m of the chart.                      *)

\* deepest charted depth of the model, in meters
MaxDepth == 30

\* what a geometry is for OGRGeometry::IsEmpty and OGRGeometry::IsValid:
\* "valid" (not empty, valid), "empty", or "invalid" (not empty, not valid)
Geometries == {"valid", "empty", "invalid"}

\* render_poly draws the polygon (part_003 line 618: it returns at once for
\* a polygon that is empty or not valid)
Drawable(geo) == geo = "valid"

\* a depth area (DEPARE, DRGARE) with its depth range and its polygon, and
\* a sounding
DepthArea(name, drval1, drval2, geo) ==
    [layer |-> name, DRVAL1 |-> drval1, DRVAL2 |-> drval2, z |-> 0, geom |-> geo]
Sounding(z) ==
    [layer |-> "SOUNDG", DRVAL1 |-> 0, DRVAL2 |-> 0, z |-> z, geom |-> "valid"]

\* the thresholds taken as upper ends of the bands
DepthBandClosed(d) ==
    IF d <= 30 THEN "foreshore"
    ELSE IF d <= 50 THEN "very_shallow"
    ELSE IF d <= 100 THEN "medium_shallow"
    ELSE IF d <= 250 THEN "medium_deep"
    ELSE "deep"

\* render_depare, lines 690-714: the colour of style.depare_colors chosen
\* for maxdepth.  The float that holds a depth of whole decimeters compares
\* with 3, 5, 10 and 25 as the depth itself does: the conversion keeps the
\* order and these four are floats.
DepthBand(d) ==
    IF d < 30 THEN "foreshore"
    ELSE IF d < 50 THEN "very_shallow"
    ELSE IF d < 100 THEN "medium_shallow"
    ELSE IF d < 250 THEN "medium_deep"
    ELSE "deep"

\* render_depare: the polygon is drawn with the band colour of the larger
\* of the two depths, 2 px wide
DrawDepare(feat) ==
    LET maxdepth == IF feat.DRVAL1 > feat.DRVAL2 THEN feat.DRVAL1 ELSE feat.DRVAL2
    IN [op |-> "poly", fill |-> DepthBand(maxdepth), line |-> DepthBand(maxdepth),
        line_width |-> 2, text |-> <<>>]

(* render_depth computes with doubles.  The double nearest to n/10 lies in *)
(* the binade [2^E, 2^(E+1)), where one unit in the last place is          *)
(* ulp = 2^(E-52); all quantities below are counted in tenths of that ulp. *)

Pow2(k) == IF k <= 0 THEN 1 ELSE 2 ^ k

\* E with 2^E <= n/10 < 2^(E+1), for n >= 1
Exponent(n) ==
    CHOOSE E \in -4..12 :
        IF E >= 0 THEN 10 * Pow2(E) <= n /\ n < 20 * Pow2(E)
        ELSE 10 <= n * Pow2(-E) /\ n * Pow2(-E) < 20

\* 2^k mod 10 for k >= 1
Pow2Mod10(k) ==
    CASE k % 4 = 1 -> 2 [] k % 4 = 2 -> 4 [] k % 4 = 3 -> 8 [] OTHER -> 6

\* how far n/10 lies above the next double below it, in tenths of an ulp:
\* (n * 2^(52-E)) mod 10
Excess(n) == ((n % 10) * Pow2Mod10(52 - Exponent(n))) % 10

\* floor(log2 r) for r in 1..9
Log2(r) == IF r >= 8 THEN 3 ELSE IF r >= 4 THEN 2 ELSE IF r >= 2 THEN 1 ELSE 0

\* std::floor((depth - depth_m) * 10), line 467.  The double for n/10 is
\* below n/10 when Excess(n) is 2 or 4 (rounding to nearest); depth - depth_m
\* is exact; the product with 10 then lies Excess(n) ulps of depth below r,
\* and rounds up to r only if that is at most half the distance from r to
\* the next double below r, otherwise floor yields r - 1.
Decimeters(n) ==
    LET r == n % 10
        c == Excess(n)
        \* distance from r down to the next double, in ulps of depth: 2^gap
        gap == Log2(r) - Exponent(n) - (IF r \in {1, 2, 4, 8} THEN 1 ELSE 0)
    IN IF r = 0 \/ c = 0 \/ c > 5 THEN r
       ELSE IF gap <= 0 THEN r - 1
       ELSE IF 2 * c > Pow2(gap) THEN r - 1
       ELSE r

\* render_depth: the label of whole meters and, unless it is 0, the
\* decimeter subscript
DrawDepth(feat) ==
    LET depth_m == feat.z \div 10
        depth_dm == Decimeters(feat.z)
    IN [op |-> "text", fill |-> "", line |-> "line_color", line_width |-> 0,
        text |-> IF depth_dm = 0 THEN <<depth_m>> ELSE <<depth_m, depth_dm>>]

\* tile datasets with one feature: a depth area whose least depth is one of
\* four and whose greatest depth is any, or a sounding of any depth
TileFeatures ==
    {DepthArea(name, d1, d2, geo) :
        name \in {"DEPARE", "DRGARE"}, d1 \in {0, 50, 120, 250},
        d2 \in 0..(10 * MaxDepth), geo \in Geometries}
    \cup {Sounding(z) : z \in 0..(10 * MaxDepth + 9)}

InitRender ==
    /\ \E f \in TileFeatures : ods = [l \in {f.layer} |-> <<f>>]
    /\ enc_root = <<>> /\ cache = NoCache /\ pos = 1
    /\ charts_ = NoCharts
    /\ styles_ = [default |-> <<"DEPARE", "DRGARE", "SOUNDG">>]
    /\ proc = "running"
    /\ error = "none"
    /\ pc = "render"
    /\ req = NoRequest
    /\ selected = <<>>
    /\ idx = 1
    /\ clip_layer = {}
    /\ opened = <<>>
    /\ result = "true"
    /\ response = 0
    /\ conn = NoThreads /\ datasets = NoDatasets
    /\ style_dir = <<>>
    /\ surface = <<>> /\ wm = NoTile /\ point = NoPoint /\ cr = NoContext /\ multi_poly = <<>>

\* what drawing a feature leaves alone
Drawn == <<enc_root, cache, pos, charts_, styles_, proc, error, req, selected,
           ods, clip_layer, opened, result, response, Threads, StyleFiles,
           wm, point, cr, multi_poly>>

\* the feature loop of render meets a depth area (lines 203-214):
\* render_depare ends in render_poly, which draws the polygon or returns
render_depare ==
    /\ pc = "render"
    /\ \E l \in DOMAIN ods \cap {"DEPARE", "DRGARE"} :
          /\ idx <= Len(ods[l])
          /\ surface' = IF Drawable(ods[l][idx].geom)
                        THEN Append(surface, DrawDepare(ods[l][idx]))
                        ELSE surface
    /\ idx' = idx + 1
    /\ pc' = "rendered"
    /\ UNCHANGED Drawn

\* the feature loop of render meets a point with a depth (render_geo,
\* lines 369-380)
render_depth ==
    /\ pc = "render"
    /\ \E l \in DOMAIN ods \ {"DEPARE", "DRGARE"} :
          /\ idx <= Len(ods[l])
          /\ surface' = Append(surface, DrawDepth(ods[l][idx]))
    /\ idx' = idx + 1
    /\ pc' = "rendered"
    /\ UNCHANGED Drawn

NextRender == render_depare \/ render_depth

SpecRender == InitRender /\ [][NextRender]_vars

\* the depth area that has been drawn, and its charted depth
DrawnArea == CHOOSE f \in {ods[l][1] : l \in DOMAIN ods} : TRUE
ChartedDepth ==
    IF DrawnArea.DRVAL1 > DrawnArea.DRVAL2 THEN DrawnArea.DRVAL1 ELSE DrawnArea.DRVAL2

\* the fill of the item drawn is the band colour of the half-open interval
\* that holds the charted depth d: d < 3 foreshore, 3 <= d < 5 very shallow,
\* 5 <= d < 10 medium shallow, 10 <= d < 25 medium deep, d >= 25 deep (d in
\* decimeters: 30, 50, 100, 250)
FilledByBand ==
    LET d == ChartedDepth
        fill == surface[1].fill
    IN /\ d < 30 <=> fill = "foreshore"
       /\ (30 <= d /\ d < 50) <=> fill = "very_shallow"
       /\ (50 <= d /\ d < 100) <=> fill = "medium_shallow"
       /\ (100 <= d /\ d < 250) <=> fill = "medium_deep"
       /\ d >= 250 <=> fill = "deep"

\* C15 (as stated): a depth area is filled with the band colour of the
\* half-open interval that holds its charted depth.
C15_EveryDepthAreaFilled ==
    (pc = "rendered" /\ DOMAIN ods \subseteq {"DEPARE", "DRGARE"}) =>
        surface # <<>> /\ FilledByBand

\* C15 (amended): a depth area whose polygon is not empty and is valid is
\* filled, once, with the band colour of the half-open interval that holds
\* its charted depth; a depth area whose polygon is empty or not valid is
\* not drawn.
C15_DepthBandsHalfOpen ==
    (pc = "rendered" /\ DOMAIN ods \subseteq {"DEPARE", "DRGARE"}) =>
        IF Drawable(DrawnArea.geom)
        THEN Len(surface) = 1 /\ FilledByBand
        ELSE surface = <<>>

\* C15 witness: a dredged area without a greatest depth, 5 m deep, has been
\* drawn as medium shallow
C15_Witness ==
    /\ pc = "rendered" /\ DOMAIN ods = {"DRGARE"}
    /\ ods["DRGARE"][1].DRVAL1 = 50 /\ ods["DRGARE"][1].DRVAL2 = 0
    /\ surface # <<>>
    /\ surface[1].fill = "medium_shallow"

\* C16: a sounding of m whole meters and r decimeters is drawn as the label
\* m, followed by the subscript r only when r is not 0.
C16_SoundingLabel ==
    (pc = "rendered" /\ DOMAIN ods = {"SOUNDG"}) =>
        LET z == ods["SOUNDG"][1].z
        IN surface[1].text =
              IF z % 10 = 0 THEN <<z \div 10>> ELSE <<z \div 10, z % 10>>

-----------------------------------------------------------------------------
(* Style files: parse_color, parse_layer, parse_icon, load_style and the   *)
(* style loop of enc_renderer::load_config.  A colour code is the sequence *)
(* of the characters of the element text.                                   *)

LowerHex == <<"0", "1", "2", "3", "4", "5", "6", "7", "8", "9",
              "a", "b", "c", "d", "e", "f">>
UpperHex == <<"0", "1", "2", "3", "4", "5", "6", "7", "8", "9",
              "A", "B", "C", "D", "E", "F">>

IsHex(c) == \E v \in 1..16 : LowerHex[v] = c \/ UpperHex[v] = c
HexValue(c) == (CHOOSE v \in 1..16 : LowerHex[v] = c \/ UpperHex[v] = c) - 1

\* number of hexadecimal digits from position i on
RECURSIVE HexRun(_, _)
HexRun(code, i) ==
    IF i <= Len(code) /\ IsHex(code[i]) THEN 1 + HexRun(code, i + 1) ELSE 0

\* strtoul(code, &eptr, 16): white space, an optional sign, an optional
\* 0x before a hexadecimal digit, then the digits; consumed is eptr - code
\* (0 when there is no digit).  sign: position behind the white space;
\* first: behind the sign; start: behind the prefix; n: number of digits
Prefixed(code, first) ==
    /\ first + 2 <= Len(code)
    /\ code[first] = "0" /\ code[first + 1] \in {"x", "X"}
    /\ IsHex(code[first + 2])

StrtoulEnd(code, sign, start, n) ==
    [consumed |-> IF n = 0 THEN 0 ELSE start + n - 1,
     digits |-> SubSeq(code, start, start + n - 1),
     negative |-> Signed(code, sign) /\ code[sign] = "-"]

StrtoulDigits(code, sign, start) ==
    StrtoulEnd(code, sign, start, HexRun(code, start))

StrtoulPrefix(code, sign, first) ==
    StrtoulDigits(code, sign, IF Prefixed(code, first) THEN first + 2 ELSE first)

StrtoulSign(code, sign) ==
    StrtoulPrefix(code, sign, IF Signed(code, sign) THEN sign + 1 ELSE sign)

Strtoul(code) == StrtoulSign(code, SpaceRun(code, 1) + 1)

\* the low 32 bits of the value, as hexadecimal digits: [0] is the lowest
Nibbles(digits) ==
    [k \in 0..7 |-> IF k < Len(digits) THEN HexValue(digits[Len(digits) - k]) ELSE 0]

\* the unsigned negation strtoul returns for a code with a minus sign
Negated(bits) ==
    [k \in 0..7 |->
        IF \A j \in 0..(k - 1) : bits[j] = 0
        THEN (16 - bits[k]) % 16 ELSE 15 - bits[k]]

\* GET4(bits, 4 * k) and GET8(bits, 8 * k)
GET4(bits, k) == 17 * bits[k]
GET8(bits, k) == 16 * bits[2 * k + 1] + bits[2 * k]

Color(a, r, g, b) == [ok |-> TRUE, alpha |-> a, red |-> r, green |-> g, blue |-> b]
InvalidColor == [ok |-> FALSE, alpha |-> 0, red |-> 0, green |-> 0, blue |-> 0]

\* the value strtoul returns, lowest hexadecimal digit first
Bits(parsed) ==
    IF parsed.negative THEN Negated(Nibbles(parsed.digits))
    ELSE Nibbles(parsed.digits)

\* the switch on len (lines 67-104)
Interpret(len, bits) ==
    CASE len = 3 -> Color(255, GET4(bits, 2), GET4(bits, 1), GET4(bits, 0))
      [] len = 4 -> Color(GET4(bits, 3), GET4(bits, 2), GET4(bits, 1), GET4(bits, 0))
      [] len = 6 -> Color(255, GET8(bits, 2), GET8(bits, 1), GET8(bits, 0))
      [] len = 8 -> Color(GET8(bits, 3), GET8(bits, 2), GET8(bits, 1), GET8(bits, 0))
      [] OTHER -> InvalidColor

\* the check of eptr (lines 60-63)
Checked(len, parsed) ==
    IF parsed.consumed # len THEN InvalidColor ELSE Interpret(len, Bits(parsed))

\* parse_color (lines 51-107); not ok: "Invalid color code" is thrown
parse_color(code) == Checked(Len(code), Strtoul(code))

\* longest run of one digit in the colour codes of the model
MaxCodeLen == 9

\* number of style files under the style path
NumStyleFiles == 2

\* n times the character c
Repeat(c, n) == [i \in 1..n |-> c]

\* colour codes: the four of the comment of parse_color and one of mixed
\* case; runs of one hexadecimal digit of every length, alone, behind
\* what strtoul skips or reads as sign or prefix, and before a character
\* that is no digit; and two and three digits behind every white-space
\* character
Codes ==
    { <<"f", "0", "f">>, <<"f", "f", "0", "f">>, <<"f", "f", "0", "0", "f", "f">>,
      <<"f", "f", "f", "f", "0", "0", "f", "f">>, <<"1", "2", "A", "b", "E", "f">> }
    \cup { before \o Repeat(c, n) \o after :
             before \in {<<>>, <<" ">>, <<"+">>, <<"-">>, <<"0", "x">>, <<"#">>},
             c \in {"0", "9", "a", "F"}, n \in 0..MaxCodeLen,
             after \in {<<>>, <<"g">>, <<" ">>} }
    \cup { <<w>> \o Repeat("f", n) : w \in WhiteSpace, n \in 2..3 }

GoodCode == <<"f", "0", "f">>
BadCode == <<"r", "e", "d">>

\* a <layer> element: its colour codes, the codes of the optional elements
\* icon_color (none or one) and depare_colors (none or five), and for every
\* <icon> whether its file exists
LayerElement(name, fill, line, icon_color, icons, depare) ==
    [layer_name |-> name, fill_color |-> fill, line_color |-> line,
     icon_color |-> icon_color, icons |-> icons, depare_colors |-> depare]

GoodLayer ==
    LayerElement("DEPARE", GoodCode, GoodCode, <<GoodCode>>, <<TRUE, TRUE>>,
                 Repeat(GoodCode, 5))

\* layers with one configuration error each
BadLayers ==
    { [GoodLayer EXCEPT !.fill_color = BadCode],
      [GoodLayer EXCEPT !.line_color = BadCode],
      [GoodLayer EXCEPT !.icon_color = <<BadCode>>],
      [GoodLayer EXCEPT !.icons = <<TRUE, FALSE>>],
      [GoodLayer EXCEPT !.depare_colors = [Repeat(GoodCode, 5) EXCEPT ![1] = BadCode]],
      [GoodLayer EXCEPT !.depare_colors = [Repeat(GoodCode, 5) EXCEPT ![5] = BadCode]] }

\* layers without the optional elements
PlainLayer == LayerElement("LNDARE", GoodCode, GoodCode, <<>>, <<>>, <<>>)

\* what a style file may hold (xml: tinyxml2 loads it): any code as fill colour of its one layer, a
\* second layer with an error, a background that is no colour, or no XML
StyleContents ==
    { [xml |-> TRUE, background |-> GoodCode,
       layers |-> <<[PlainLayer EXCEPT !.fill_color = c]>>] : c \in Codes }
    \cup { [xml |-> TRUE, background |-> GoodCode, layers |-> <<GoodLayer, l>>] :
             l \in BadLayers \cup {GoodLayer} }
    \cup { [xml |-> TRUE, background |-> BadCode, layers |-> <<GoodLayer>>],
           [xml |-> FALSE, background |-> GoodCode, layers |-> <<>>] }

\* the contents of the second and later style files
FewContents ==
    {c \in StyleContents : Len(c.layers) # 1 \/ c.layers[1].fill_color = GoodCode}

\* a file under the style path
StyleEntry(stem, ext, content) == [stem |-> stem, ext |-> ext, content |-> content]

\* what a file of another extension holds: no XML, or a good style
OtherContents ==
    {c \in FewContents : ~c.xml \/ (c.background = GoodCode /\ Len(c.layers) = 1)}

\* the files a set of contents makes: style files, and files of another
\* extension
Files(contents) ==
    {[ext |-> ".xml", content |-> c] : c \in contents}
    \cup {[ext |-> ".txt", content |-> c] : c \in contents \cap OtherContents}

\* the style path: NumStyleFiles files, the first with any contents
StyleDirs ==
    { [i \in 1..NumStyleFiles |->
         IF i = 1 THEN StyleEntry(1, first.ext, first.content)
         ELSE StyleEntry(i, rest[i].ext, rest[i].content)] :
        first \in Files(StyleContents),
        rest \in [2..NumStyleFiles -> Files(FewContents)] }

\* xml_text (lines 258-270) throws for an element without text; then
\* parse_color (lines 51-107) throws for a code it does not accept
ColorError(code) ==
    IF code = <<>> THEN "Tag may not be empty"
    ELSE IF ~parse_color(code).ok THEN "Invalid color code"
    ELSE "ok"

\* parse_icon (lines 183-202): the icon file exists
parse_icon(exists) == exists

\* the first exception of a sequence of outcomes, or "ok"
FirstError(outcomes) ==
    IF \A i \in 1..Len(outcomes) : outcomes[i] = "ok" THEN "ok"
    ELSE outcomes[CHOOSE i \in 1..Len(outcomes) :
                     /\ outcomes[i] # "ok"
                     /\ \A j \in 1..(i - 1) : outcomes[j] = "ok"]

\* the first exception parse_layer throws for a layer element, or "ok"
LayerError(node) ==
    FirstError(<<ColorError(node.fill_color), ColorError(node.line_color)>>
               \o [i \in 1..Len(node.icon_color) |-> ColorError(node.icon_color[i])]
               \o [i \in 1..Len(node.icons) |->
                      IF parse_icon(node.icons[i]) THEN "ok"
                      ELSE "Unable to locate icon"]
               \o [i \in 1..Len(node.depare_colors) |->
                      ColorError(node.depare_colors[i])])

\* parse_layer (lines 115-178)
parse_layer(node) ==
    [layer_name |-> node.layer_name,
     fill_color |-> parse_color(node.fill_color),
     line_color |-> parse_color(node.line_color),
     icon_color |-> IF node.icon_color = <<>> THEN Color(255, 0, 0, 0)
                    ELSE parse_color(node.icon_color[1]),
     icons |-> Len(node.icons),
     depare_colors |-> [i \in 1..Len(node.depare_colors) |->
                           parse_color(node.depare_colors[i])]]

\* the first exception load_style lets out for a style file, or "ok"; the
\* exception of the background colour is caught (lines 223-227)
StyleError(file) ==
    IF ~file.xml THEN "Cannot parse"
    ELSE FirstError([i \in 1..Len(file.layers) |-> LayerError(file.layers[i])])

\* load_style (lines 210-235): background is left empty when its code does
\* not parse
load_style(file) ==
    [background |-> IF ColorError(file.background) = "ok"
                    THEN <<parse_color(file.background)>> ELSE <<>>,
     layers |-> [i \in 1..Len(file.layers) |-> parse_layer(file.layers[i])]]

InitStyle ==
    /\ style_dir \in StyleDirs
    /\ enc_root = <<>> /\ cache = NoCache
    /\ pos = 1
    /\ charts_ = NoCharts
    /\ styles_ = [k \in {} |-> <<>>]
    /\ proc = "starting"
    /\ error = "none"
    /\ pc = "idle"
    /\ req = NoRequest
    /\ selected = <<>>
    /\ idx = 0
    /\ ods = NoLayers
    /\ clip_layer = {}
    /\ opened = <<>>
    /\ result = "none"
    /\ response = 0
    /\ conn = NoThreads /\ datasets = NoDatasets
    /\ surface = <<>> /\ wm = NoTile /\ point = NoPoint /\ cr = NoContext /\ multi_poly = <<>>

\* what the style loop leaves alone
Styled == <<enc_root, cache, charts_, style_dir, Single, Threads, Drawing>>

\* one step of the style loop of load_config (lines 1355-1363) for a file
\* *.xml whose load_style returns
style_loaded ==
    /\ proc = "starting" /\ pos <= Len(style_dir)
    /\ LET entry == style_dir[pos]
       IN /\ entry.ext = ".xml"
          /\ StyleError(entry.content) = "ok"
          /\ styles_' = Indexed(styles_, entry.stem, load_style(entry.content))
    /\ pos' = pos + 1
    /\ UNCHANGED <<Styled, proc, error>>

\* one step of the style loop for a file of another extension (line 1359):
\* the file is not opened
style_skipped ==
    /\ proc = "starting" /\ pos <= Len(style_dir)
    /\ style_dir[pos].ext # ".xml"
    /\ pos' = pos + 1
    /\ UNCHANGED <<Styled, styles_, proc, error>>

\* load_style throws: nothing between it and main catches
load_style_throw ==
    /\ proc = "starting" /\ pos <= Len(style_dir)
    /\ style_dir[pos].ext = ".xml"
    /\ StyleError(style_dir[pos].content) # "ok"
    /\ error' = StyleError(style_dir[pos].content)
    /\ proc' = "terminated"
    /\ UNCHANGED <<Styled, pos, styles_>>

\* load_config returns: the renderer is constructed
load_config_done ==
    /\ proc = "starting" /\ pos > Len(style_dir)
    /\ proc' = "running"
    /\ UNCHANGED <<Styled, pos, styles_, error>>

NextStyle == style_loaded \/ style_skipped \/ load_style_throw \/ load_config_done

SpecStyle == InitStyle /\ [][NextStyle]_vars

\* the colour codes of a layer element
LayerCodes(node) ==
    {node.fill_color, node.line_color}
    \cup {node.icon_color[i] : i \in 1..Len(node.icon_color)}
    \cup {node.depare_colors[i] : i \in 1..Len(node.depare_colors)}

\* exactly 3, 4, 6 or 8 hexadecimal digits
HexDigits(code) ==
    Len(code) \in {3, 4, 6, 8} /\ \A i \in 1..Len(code) : IsHex(code[i])

\* C17: parse_color accepts a colour code only if it is exactly 3, 4, 6 or
\* 8 hexadecimal digits: a style is loaded only from a file all of whose
\* layer colour codes are of that form, every other code raises the error.
C17_OnlyHexDigitsAccepted ==
    \A stem \in DOMAIN styles_ :
        \A i \in 1..Len(style_dir[stem].content.layers) :
            \A code \in LayerCodes(style_dir[stem].content.layers[i]) :
                HexDigits(code)

\* a configuration error of a style file: no XML, a colour element whose
\* code parse_color rejects, or an icon whose file does not exist
ConfigError(file) ==
    \/ ~file.xml
    \/ ColorError(file.background) # "ok"
    \/ \E i \in 1..Len(file.layers) :
          \/ \E code \in LayerCodes(file.layers[i]) : ColorError(code) # "ok"
          \/ \E k \in 1..Len(file.layers[i].icons) : ~file.layers[i].icons[k]

\* C18: every configuration error in a style file is fatal at startup: the
\* renderer is constructed only when no style file (a file *.xml under the
\* style path) has an invalid colour code (background, fill, line, icon,
\* depth bands) or a missing icon file.
C18_StyleErrorsFatal ==
    proc = "running" =>
        \A i \in 1..Len(style_dir) :
            style_dir[i].ext = ".xml" => ~ConfigError(style_dir[i].content)

-----------------------------------------------------------------------------
(* Web Mercator tiles: the tiles and tile sizes of the model                *)

\* highest zoom level of the tiles of the model
MaxZoom == 2

\* tile_size_ of the configuration, in pixels
TileSizes == {256, 100}

coord(x, y) == [x |-> x, y |-> y]

\* the tiles: x and y below the number of tiles of the zoom level
TileAddresses ==
    {t \in [x : 0..(Pow2(MaxZoom) - 1), y : 0..(Pow2(MaxZoom) - 1), z : 0..MaxZoom] :
        t.x < Pow2(t.z) /\ t.y < Pow2(t.z)}

\* what the coordinate conversions leave alone
Mapped == <<enc_root, cache, pos, charts_, styles_, proc, error, req, selected,
            idx, ods, clip_layer, opened, result, response, Threads, StyleFiles,
            cr, multi_poly>>

-----------------------------------------------------------------------------
(* The layer loop of enc_renderer::render (lines 163-316): generic         *)
(* features (render_geo), depth areas (render_depare) and named areas      *)
(* (render_named_area), with the polygon union pass (render_multipoly)     *)
(* that ends a layer.  The layers of M_COVR and of the features drawn as   *)
(* icons are not in the styles of the model; the features of a named-area  *)
(* layer are polygons.                                                     *)

\* most features of a tile
MaxFeats == 3

\* layer_style (style.h lines 59-98): the fields the loop reads
LayerStyle(name, width, dash, marker) ==
    [layer_name |-> name, line_width |-> width, line_dash |-> dash,
     marker_size |-> marker]

\* render_style: background and layers, in the order of the style file
DrawStyles ==
    { [background |-> TRUE,
       layers |-> <<LayerStyle("LNDARE", 1, 0, 0), LayerStyle("DEPARE", 1, 0, 0),
                    LayerStyle("COALNE", 2, 1, 4)>>],
      [background |-> FALSE,
       layers |-> <<LayerStyle("DEPARE", 1, 2, 0), LayerStyle("SLCONS", 2, 3, 0),
                    LayerStyle("SEAARE", 1, 5, 0)>>],
      [background |-> TRUE,
       layers |-> <<LayerStyle("COALNE", 1, 3, 4), LayerStyle("DRGARE", 1, 0, 0),
                    LayerStyle("LNDARE", 3, 2, 0)>>],
      [background |-> FALSE,
       layers |-> <<LayerStyle("BUAARE", 2, 2, 0), LayerStyle("SLCONS", 1, -1, 6)>>] }

NamedAreas == {"LNDARE", "SEAARE", "LNDRGN", "BUAARE"}
DepthAreas == {"DEPARE", "DRGARE"}

\* an output feature: the layer it is of, its geometry type, OBJNAM, the
\* depth range, and what its geometry is for IsEmpty and IsValid
DrawFeat(layer, type, objnam, drval1, drval2, geo) ==
    [layer |-> layer, type |-> type, OBJNAM |-> objnam,
     DRVAL1 |-> drval1, DRVAL2 |-> drval2, geom |-> geo]

\* the features a layer may hold.  The polygons of a depth area are valid,
\* or not valid; the polygons that go into the union pass are valid, or
\* empty (what OGRGeometry::UnionCascaded makes of a polygon that is not
\* valid is not in the source)
LayerFeats(name) ==
    IF name \in DepthAreas
    THEN {DrawFeat(name, "Polygon", "", 0, 20, "valid"),
          DrawFeat(name, "Polygon", "", 120, 0, "valid"),
          DrawFeat(name, "Polygon", "", 120, 0, "invalid")}
    ELSE IF name \in NamedAreas
    THEN {DrawFeat(name, "Polygon", n, 0, 0, "valid") : n \in {"", "Isle"}}
         \cup {DrawFeat(name, "Polygon", "Isle", 0, 0, "empty")}
    ELSE {DrawFeat(name, t, "", 0, 0, "valid") : t \in {"Point", "LineString", "Polygon"}}
         \cup {DrawFeat(name, "Polygon", "", 0, 0, "empty")}

\* the features of a layer, in the order of the tile dataset, numbered as
\* FIDs within the tile
RECURSIVE OfLayer(_, _, _)
OfLayer(feats, name, i) ==
    IF i > Len(feats) THEN <<>>
    ELSE IF feats[i].layer = name
    THEN <<[feats[i] EXCEPT !.layer = name] @@ [fid |-> i]>> \o OfLayer(feats, name, i + 1)
    ELSE OfLayer(feats, name, i + 1)

\* tile datasets for a style: every layer of the style exists, the tile
\* holds up to MaxFeats features
TileData(style) ==
    LET names == {style.layers[i].layer_name : i \in 1..Len(style.layers)}
        slots == UNION {LayerFeats(n) : n \in names}
    IN { [n \in names |-> OfLayer(feats, n, 1)] :
           feats \in UNION {[1..k -> slots] : k \in 0..MaxFeats} }

\* one item drawn on the surface
Drawn_(op, lstyle, fids, fill, dash) ==
    [op |-> op, layer |-> lstyle.layer_name, fids |-> fids, fill |-> fill,
     dash |-> dash]

\* the switch on style.line_dash of render_line and render_poly
\* (lines 586-604, 652-670): no case for a code outside 0..3
SetDash(context, lstyle) ==
    CASE lstyle.line_dash = 0 -> [dash |-> <<>>]
      [] lstyle.line_dash = 1 -> [dash |-> <<lstyle.line_width>>]
      [] lstyle.line_dash = 2 -> [dash |-> <<lstyle.line_width * 2>>]
      [] lstyle.line_dash = 3 -> [dash |-> <<lstyle.line_width * 10>>]
      [] OTHER -> context

\* the canvas: surface, cr and multi_poly together
Canvas(s, context, polys) == [surface |-> s, cr |-> context, multi_poly |-> polys]

\* render_point (lines 519-551): nothing for marker_size 0; the stroke
\* takes the dashes the context holds
render_point(c, lstyle, fid) ==
    IF lstyle.marker_size = 0 THEN c
    ELSE [c EXCEPT !.surface =
             Append(@, Drawn_("point", lstyle, {fid}, "fill_color", c.cr.dash))]

\* render_line (lines 561-606)
render_line(c, lstyle, fid) ==
    [c EXCEPT !.cr = SetDash(@, lstyle),
              !.surface = Append(@, Drawn_("line", lstyle, {fid}, "",
                                           SetDash(c.cr, lstyle).dash))]

\* render_poly (lines 616-672): nothing for a polygon that is empty or not
\* valid (line 618), not a call of cairo; else the fill and the stroke
render_poly(c, lstyle, fids, fill, geo) ==
    IF ~Drawable(geo) THEN c
    ELSE [c EXCEPT !.cr = SetDash(@, lstyle),
                   !.surface = Append(@, Drawn_("poly", lstyle, fids, fill,
                                                SetDash(c.cr, lstyle).dash))]

\* the polygon of a generic feature is drawn where it is met
render_geo_at_once(c, lstyle, feat) ==
    CASE feat.type = "Point" -> render_point(c, lstyle, feat.fid)
      [] feat.type = "LineString" -> render_line(c, lstyle, feat.fid)
      [] feat.type = "Polygon" ->
            render_poly(c, lstyle, {feat.fid}, "fill_color", feat.geom)

\* render_geo (lines 348-419): a polygon is added to late_render_polygons
render_geo(c, lstyle, feat) ==
    CASE feat.type = "Point" -> render_point(c, lstyle, feat.fid)
      [] feat.type = "LineString" -> render_line(c, lstyle, feat.fid)
      [] feat.type = "Polygon" ->
            [c EXCEPT !.multi_poly = Append(@, [fid |-> feat.fid, geom |-> feat.geom])]

\* render_depare (lines 674-719) for the layer loop: render_poly with the
\* band colour and line width 2
render_depare_poly(c, lstyle, feat) ==
    render_poly(c, [lstyle EXCEPT !.line_width = 2], {feat.fid},
                DrawDepare(feat).fill, feat.geom)

\* OGRGeometry::UnionCascaded of polygons that are valid or empty: the
\* union is empty when every polygon is, and when there is no polygon
UnionCascaded(polys) ==
    IF \E i \in 1..Len(polys) : polys[i].geom = "valid" THEN "valid" ELSE "empty"

\* render_named_area (lines 1254-1286): the name, when there is one
render_named_area(c, lstyle, feat) ==
    IF feat.OBJNAM = "" THEN c
    ELSE [c EXCEPT !.surface =
             Append(@, Drawn_("text", lstyle, {feat.fid}, feat.OBJNAM, <<>>))]

\* render_multipoly (lines 421-448): the union of the polygons goes to
\* render_poly (one item stands for the parts of the union)
render_multipoly(c, lstyle) ==
    render_poly(c, lstyle, {c.multi_poly[i].fid : i \in 1..Len(c.multi_poly)},
                "fill_color", UnionCascaded(c.multi_poly))

\* the dispatch of the feature loop on the name of the feature (lines
\* 174-281)
DrawFeature(c, lstyle, feat) ==
    IF feat.layer \in DepthAreas THEN render_depare_poly(c, lstyle, feat)
    ELSE IF feat.layer \in NamedAreas
    THEN render_named_area(render_geo(c, lstyle, feat), lstyle, feat)
    ELSE render_geo(c, lstyle, feat)

\* the end of a layer (lines 283-315)
EndLayer(c, lstyle) ==
    IF lstyle.layer_name # "DEPARE" /\ lstyle.layer_name # "DRGARE"
    THEN [render_multipoly(c, lstyle) EXCEPT !.multi_poly = <<>>]
    ELSE [c EXCEPT !.multi_poly = <<>>]

\* render has exported the tile and painted the background (lines 141-160)
InitDraw ==
    /\ \E style \in DrawStyles :
          /\ styles_ = [default |-> style]
          /\ ods \in TileData(style)
          /\ surface = IF style.background
                       THEN <<[op |-> "paint", layer |-> "", fids |-> {},
                               fill |-> "background", dash |-> <<>>]>>
                       ELSE <<>>
    /\ cr = NoContext /\ multi_poly = <<>>
    /\ pc = "features" /\ idx = 1 /\ pos = 1
    /\ enc_root = <<>> /\ cache = NoCache
    /\ charts_ = NoCharts
    /\ proc = "running"
    /\ error = "none"
    /\ req = NoRequest
    /\ selected = <<>>
    /\ clip_layer = {}
    /\ opened = <<>>
    /\ result = "true"
    /\ response = 0
    /\ conn = NoThreads /\ datasets = NoDatasets
    /\ style_dir = <<>>
    /\ wm = NoTile /\ point = NoPoint

\* what the layer loop leaves alone
Painted == <<enc_root, cache, charts_, styles_, proc, error, req, selected, ods,
             clip_layer, opened, result, response, Threads, StyleFiles, wm, point>>

\* the layers taken from the last to the first
lstyle_from_last == styles_["default"].layers[Len(styles_["default"].layers) + 1 - idx]

\* the layer the loop is at and the features of the tile in it
lstyle_ == styles_["default"].layers[idx]
tile_layer == ods[lstyle_.layer_name]

\* one turn of the feature loop
render_feature ==
    /\ pc = "features" /\ pos <= Len(tile_layer)
    /\ \E c \in {DrawFeature(Canvas(surface, cr, multi_poly), lstyle_, tile_layer[pos])} :
          /\ surface' = c.surface
          /\ cr' = c.cr
          /\ multi_poly' = c.multi_poly
    /\ pos' = pos + 1
    /\ UNCHANGED <<Painted, idx, pc>>

\* the feature loop of a layer is over: the union pass, then the next layer
\* or the end of the layer loop
render_layer_end ==
    /\ pc = "features" /\ pos > Len(tile_layer)
    /\ \E c \in {EndLayer(Canvas(surface, cr, multi_poly), lstyle_)} :
          /\ surface' = c.surface
          /\ cr' = c.cr
          /\ multi_poly' = c.multi_poly
    /\ pc' = IF idx = Len(styles_["default"].layers) THEN "rendered" ELSE "features"
    /\ idx' = idx + 1
    /\ pos' = 1
    /\ UNCHANGED Painted

NextDraw == render_feature \/ render_layer_end

SpecDraw == InitDraw /\ [][NextDraw]_vars

\* the layers of the style being drawn, the place of a layer in it, and the
\* polygon items drawn for a layer
DrawLayers == styles_["default"].layers
Place(name) == CHOOSE k \in 1..Len(DrawLayers) : DrawLayers[k].layer_name = name
Polys(name) ==
    {i \in 1..Len(surface) : surface[i].op = "poly" /\ surface[i].layer = name}
PolygonFids(name) ==
    {ods[name][i].fid : i \in {j \in 1..Len(ods[name]) : ods[name][j].type = "Polygon"}}

\* the feature loop has passed feature i of layer name
Walked(name, i) == idx > Place(name) \/ (idx = Place(name) /\ pos > i)

\* the polygons of a layer that render_poly draws
DrawableFids(name) ==
    {ods[name][i].fid : i \in {j \in 1..Len(ods[name]) :
                                 ods[name][j].type = "Polygon" /\ Drawable(ods[name][j].geom)}}


-----------------------------------------------------------------------------
(* The chart loop of export_data: missing coverage and failures            *)

\* C22: remaining_coverage (the clip layer) is the one bbox rectangle before
\* the first chart, and after every chart it is what it was less that
\* chart's own declared coverage: it is always the bbox less the declared
\* coverage of the charts processed so far, so it lies inside the bbox and
\* never grows.
C22_RemainingCoverage ==
    pc \in {"export", "exported"} =>
        /\ opened = <<>> => clip_layer = {BBoxPolygon(req.bbox)}
        /\ UnionAll(clip_layer) =
              BBoxPolygon(req.bbox) \
                 UNION {DeclaredCoverage(opened[i]) : i \in 1..Len(opened)}

\* two charts have been processed: the first left part of its rectangle
\* uncovered, and coverage is still missing after the second
C22_Witness ==
    /\ pc = "exported" /\ Len(opened) = 2
    /\ clip_layer # {}
    /\ UnionAll(clip_layer) # BBoxPolygon(req.bbox)
    /\ DeclaredCoverage(opened[1]) \cap BBoxPolygon(req.bbox) # {}
    /\ DeclaredCoverage(opened[2]) \cap UnionAll(clip_layer) = {}

\* C23: a geometry operation that fails during export_data aborts the
\* export with an error: export_data never returns, true or false, with an
\* output feature whose geometry operation failed.
C23_NoPartialResult ==
    result \in {"true", "false"} =>
        \A l \in DOMAIN ods : \A i \in 1..Len(ods[l]) : ~ods[l][i].null

\* the chart the chart loop is at, and the requested layers
ChartAt == FileOf(enc_root, charts_[selected[idx]].path)
RequestedLayers == {LayersOf(styles_, req.style)[i] :
                       i \in 1..Len(LayersOf(styles_, req.style))}

\* the requested layers the chart at hand carries
CarriedLayers == RequestedLayers \cap DOMAIN ChartAt.layers

\* the errors the statements of an iteration raise for this chart: those of
\* Open, of the output layers, of the coverage and of the working layers,
\* of the copy of a merge layer the chart carries and of the clip of
\* another layer it carries
Raisable ==
    {"Cannot open input data set",
     "Cannot open output layer (OGR interleaving issue?)",
     "Cannot open M_COVR layer", "Cannot create coverage feature",
     "Feature does not have field \"CATCOV\"",
     "Feature field \"CATCOV\" is not an integer",
     "Cannot perform layer erase operation", "Cannot delete layer feature"}
    \cup (IF CarriedLayers \cap MergeLayers # {}
          THEN {"Cannot copy feature to output layer", "SIGSEGV"} ELSE {})
    \cup (IF CarriedLayers \ MergeLayers # {}
          THEN {"Cannot perform layer clip operation"} ELSE {})

\* C24: the chart at hand does not carry a requested layer.  No error is
\* raised for that layer: an error that ends the iteration comes from a
\* statement on what the chart does carry.  The iteration that completes
\* leaves the output layer of the absent layer in place and as it was,
\* has copied or clipped every requested layer the chart does carry, the
\* layers requested after the absent one too, and has taken the chart's
\* declared coverage from the remaining coverage.
C24_AbsentLayerSkipped ==
    [][(pc = "export" /\ RequestedLayers \ DOMAIN ChartAt.layers # {})
       => /\ proc' # "running" => error' \in Raisable
          /\ proc' = "running" =>
              /\ opened' = Append(opened, selected[idx])
              /\ DOMAIN ods' = DOMAIN ods
              /\ \A l \in RequestedLayers \ DOMAIN ChartAt.layers : ods'[l] = ods[l]
              /\ \A l \in CarriedLayers \cap MergeLayers :
                    \A i \in 1..Len(ChartAt.layers[l]) :
                       \E k \in 1..Len(ods'[l]) :
                          /\ ods'[l][k].fid = ChartAt.layers[l][i].fid
                          /\ selected[idx] \in ods'[l][k].src
              /\ \A l \in CarriedLayers \ MergeLayers :
                    \A i \in 1..Len(ChartAt.layers[l]) :
                       ChartAt.layers[l][i].geom \cap UnionAll(clip_layer) # {} =>
                          \E k \in 1..Len(ods'[l]) :
                             /\ ods'[l][k].geom =
                                   ChartAt.layers[l][i].geom \cap UnionAll(clip_layer)
                             /\ ods'[l][k].src = {selected[idx]}
              /\ UnionAll(clip_layer') =
                    UnionAll(clip_layer) \ DeclaredCoverage(selected[idx])]_vars

\* a chart of the open sea without land, the first layer of the style, has
\* been processed and then an inland chart without depth areas, the last
\* layer: the depth areas of the first chart have been clipped into the
\* output behind the absent land, the land of the inland chart is there too
C24_Witness ==
    /\ pc \in {"export", "exported"} /\ Len(opened) = 2
    /\ LayersOf(styles_, req.style) = <<"LNDARE", "DEPARE">>
    /\ DOMAIN FileOf(enc_root, charts_[opened[1]].path).layers = {"DEPARE"}
    /\ DOMAIN FileOf(enc_root, charts_[opened[2]].path).layers = {"LNDARE"}
    /\ \E k \in 1..Len(ods["DEPARE"]) : ods["DEPARE"][k].src = {opened[1]}
    /\ \E k \in 1..Len(ods["LNDARE"]) : opened[2] \in ods["LNDARE"][k].src
    /\ UnionAll(clip_layer) # BBoxPolygon(req.bbox)

\* the items drawn for the layers (all but the background)
LayerItems == {i \in 1..Len(surface) : surface[i].op # "paint"}

\* C25: the layers are drawn in the order the style declares them: every
\* item of a layer (features, names and the union of its polygons) is
\* drawn after every item of a layer declared earlier, and the background
\* before them all.
C25_DeclarationOrder ==
    /\ \A i, j \in LayerItems :
          i < j => Place(surface[i].layer) <= Place(surface[j].layer)
    /\ \A i \in 1..Len(surface) : surface[i].op = "paint" => i = 1

\* items of three layers have been drawn over a background
C25_Witness ==
    /\ pc = "rendered" /\ Len(surface) = 4
    /\ surface[1].op = "paint"
    /\ Place(surface[2].layer) = 1 /\ Place(surface[3].layer) = 2
    /\ Place(surface[4].layer) = 3


\* C26: every dataset render creates for a request is closed before render
\* returns: when no connection thread of the running server is inside
\* render (each is idle or about to reply), no composited dataset is open.
C26_DatasetsClosed ==
    (proc = "running" /\ \A t \in DOMAIN conn : conn[t].pc \in {"idle", "reply"}) =>
        DOMAIN datasets = {}


\* the style a layer's outlines are stroked with: the layer's own, for a
\* depth area with the line width render_depare sets
Stroked(name) ==
    IF name \in DepthAreas
    THEN [DrawLayers[Place(name)] EXCEPT !.line_width = 2]
    ELSE DrawLayers[Place(name)]

\* C27: the dashes an outline is stroked with are those of the feature's own
\* layer style (code 0 solid, 1/2/3 dashes of 1x/2x/10x the line width),
\* whatever was drawn before it in the request; a point marker, or a layer
\* with a dash code outside 0..3, is stroked as it is when nothing was drawn
\* before it.
C27_DashFromOwnStyle ==
    \A i \in 1..Len(surface) :
        /\ surface[i].op \in {"line", "poly"} =>
              surface[i].dash = SetDash(NoContext, Stroked(surface[i].layer)).dash
        /\ surface[i].op = "point" => surface[i].dash = NoContext.dash


\* C28: in a named-area layer the name of a feature is drawn after the fill
\* of the layer's polygons: no polygon fill of the layer follows a name of
\* the layer on the surface.
C28_NameAfterFill ==
    \A i, j \in 1..Len(surface) :
        /\ surface[i].op = "text" /\ surface[i].layer \in NamedAreas
        /\ surface[j].op = "poly" /\ surface[j].layer = surface[i].layer
        => j < i


-----------------------------------------------------------------------------
(* The doubles of the web_mercator constructor with their rounding.  A    *)
(* double is a sign, a mantissa of Precision binary digits and an         *)
(* exponent: (+/-) m * 2^e.  A mantissa is a sequence of limbs of         *)
(* LimbBits binary digits each, the least significant first, without zero *)
(* limbs at the high end.                                                 *)

\* binary digits of a limb, and of the mantissa of a double
LimbBits == 14
Precision == 53

Base == 2 ^ LimbBits

Limb(a) == IF a = <<>> THEN 0 ELSE a[1]
Rest(a) == IF a = <<>> THEN <<>> ELSE Tail(a)

\* the limbs of a natural number
RECURSIVE Limbs(_)
Limbs(n) == IF n = 0 THEN <<>> ELSE <<n % Base>> \o Limbs(n \div Base)

\* without the zero limbs at the high end
Strip(a) ==
    IF \A i \in 1..Len(a) : a[i] = 0 THEN <<>>
    ELSE SubSeq(a, 1, Max({i \in 1..Len(a) : a[i] # 0}))

\* a + b + carry
RECURSIVE AddLimbs(_, _, _)
AddLimbs(a, b, carry) ==
    IF a = <<>> /\ b = <<>> THEN (IF carry = 0 THEN <<>> ELSE <<carry>>)
    ELSE <<(Limb(a) + Limb(b) + carry) % Base>>
            \o AddLimbs(Rest(a), Rest(b), (Limb(a) + Limb(b) + carry) \div Base)

\* a - b - borrow, for a >= b
RECURSIVE SubLimbs(_, _, _)
SubLimbs(a, b, borrow) ==
    IF a = <<>> THEN <<>>
    ELSE <<(Limb(a) - Limb(b) - borrow) % Base>>
            \o SubLimbs(Rest(a), Rest(b),
                        IF Limb(a) - Limb(b) - borrow < 0 THEN 1 ELSE 0)

\* a < b
LessLimbs(a, b) ==
    IF Len(a) # Len(b) THEN Len(a) < Len(b)
    ELSE \E i \in 1..Len(a) :
            /\ a[i] < b[i]
            /\ \A j \in (i + 1)..Len(a) : a[j] = b[j]

\* a * k + carry for one limb k
RECURSIVE MulLimb(_, _, _)
MulLimb(a, k, carry) ==
    IF a = <<>> THEN (IF carry = 0 THEN <<>> ELSE <<carry>>)
    ELSE <<(a[1] * k + carry) % Base>> \o MulLimb(Tail(a), k, (a[1] * k + carry) \div Base)

\* a * b
RECURSIVE MulLimbs(_, _)
MulLimbs(a, b) ==
    IF a = <<>> \/ b = <<>> THEN <<>>
    ELSE AddLimbs(MulLimb(a, b[1], 0),
                  IF Len(b) = 1 THEN <<>> ELSE <<0>> \o MulLimbs(a, Tail(b)), 0)

\* the number of binary digits of a limb, and of a mantissa
LimbLength(n) == Min({k \in 0..LimbBits : n < 2 ^ k})
Length(a) == IF a = <<>> THEN 0 ELSE LimbBits * (Len(a) - 1) + LimbLength(a[Len(a)])

\* binary digit i of a, the lowest being digit 0
DigitAt(a, i) ==
    IF i \div LimbBits >= Len(a) THEN 0
    ELSE (a[(i \div LimbBits) + 1] \div (2 ^ (i % LimbBits))) % 2

\* a * 2^k
ShiftLeft(a, k) ==
    IF a = <<>> THEN <<>>
    ELSE [i \in 1..(k \div LimbBits) |-> 0] \o MulLimb(a, 2 ^ (k % LimbBits), 0)

\* a \div 2^k
ShiftRight(a, k) ==
    Strip([i \in 1..(Len(a) - (k \div LimbBits)) |->
              (a[i + (k \div LimbBits)] \div (2 ^ (k % LimbBits)))
              + (IF i + (k \div LimbBits) < Len(a)
                 THEN (a[i + (k \div LimbBits) + 1] % (2 ^ (k % LimbBits)))
                          * (2 ^ (LimbBits - (k % LimbBits)))
                 ELSE 0)])

\* the double of sign, mantissa and exponent, for a mantissa of at most
\* Precision digits: the mantissa is made Precision digits long
Double(neg, m, e) ==
    IF m = <<>> THEN [neg |-> FALSE, m |-> <<>>, e |-> 0]
    ELSE [neg |-> neg, m |-> ShiftLeft(m, Precision - Length(m)),
          e |-> e - (Precision - Length(m))]

\* the k low digits of m are dropped, to the nearest, ties to even
RoundUp(m, k) ==
    /\ DigitAt(m, k - 1) = 1
    /\ (DigitAt(m, k) = 1 \/ \E i \in 0..(k - 2) : DigitAt(m, i) = 1)
Rounded(m, k) ==
    IF RoundUp(m, k) THEN AddLimbs(ShiftRight(m, k), <<1>>, 0) ELSE ShiftRight(m, k)

\* a mantissa of Precision + 1 digits after rounding is 2^Precision
Renormal(neg, m, e) ==
    IF Length(m) > Precision THEN Double(neg, ShiftRight(m, 1), e + 1)
    ELSE Double(neg, m, e)

\* the double nearest to (+/-) m * 2^e
fl(neg, m, e) ==
    IF Length(m) <= Precision THEN Double(neg, m, e)
    ELSE Renormal(neg, Rounded(m, Length(m) - Precision), e + Length(m) - Precision)

\* the least of the exponents of two doubles, and the mantissa of a at it
LeastExponent(a, b) ==
    IF a.m = <<>> THEN b.e ELSE IF b.m = <<>> THEN a.e
    ELSE IF a.e < b.e THEN a.e ELSE b.e
AtExponent(a, e) == IF a.m = <<>> THEN <<>> ELSE ShiftLeft(a.m, a.e - e)

\* the sum of two mantissas with signs at one exponent, rounded
SignedSum(na, ma, nb, mb, e) ==
    IF na = nb THEN fl(na, AddLimbs(ma, mb, 0), e)
    ELSE IF LessLimbs(ma, mb) THEN fl(nb, Strip(SubLimbs(mb, ma, 0)), e)
    ELSE fl(na, Strip(SubLimbs(ma, mb, 0)), e)

\* the operators +, - and * of doubles
DoubleAdd(a, b) ==
    SignedSum(a.neg, AtExponent(a, LeastExponent(a, b)),
              b.neg, AtExponent(b, LeastExponent(a, b)), LeastExponent(a, b))
DoubleSub(a, b) ==
    SignedSum(a.neg, AtExponent(a, LeastExponent(a, b)),
              ~b.neg, AtExponent(b, LeastExponent(a, b)), LeastExponent(a, b))
DoubleMul(a, b) == fl(a.neg # b.neg, MulLimbs(a.m, b.m), a.e + b.e)

\* a double divided by the power of two 2^k
DoubleHalved(a, k) == IF a.m = <<>> THEN a ELSE [a EXCEPT !.e = @ - k]

\* the conversion of a std::size_t or an int to double
ToDouble(n) == Double(FALSE, Limbs(n), 0)

\* M_PI of <cmath>, 0x1921FB54442D18 * 2^-51, in its four 16-bit groups
M_PI ==
    Double(FALSE,
           AddLimbs(AddLimbs(ShiftLeft(Limbs(25), 48), ShiftLeft(Limbs(8699), 32), 0),
                    AddLimbs(ShiftLeft(Limbs(21572), 16), Limbs(11544), 0), 0),
           -51)

\* Nominal planet radius (line 29)
radius == 6378137

\* tile_side before the division (line 32): 2 * M_PI * radius
MapSide == DoubleMul(DoubleMul(ToDouble(2), M_PI), ToDouble(radius))

\* the row after the flip of line 44
FlipY(y, z, tc) == IF tc = "WTMS" THEN Pow2(z) - y - 1 ELSE y

\* k * tile_side - offset_m_ (lines 51-52)
MinOf(k, tile_side, offset_m_) == DoubleSub(DoubleMul(ToDouble(k), tile_side), offset_m_)

\* bbox_m_ as the constructor computes it in doubles (lines 32-54)
bbox_m_(x, y, z, tc) ==
    [MinX |-> MinOf(x, DoubleHalved(MapSide, z), DoubleHalved(MapSide, 1)),
     MinY |-> MinOf(FlipY(y, z, tc), DoubleHalved(MapSide, z), DoubleHalved(MapSide, 1)),
     MaxX |-> DoubleAdd(MinOf(x, DoubleHalved(MapSide, z), DoubleHalved(MapSide, 1)),
                        DoubleHalved(MapSide, z)),
     MaxY |-> DoubleAdd(MinOf(FlipY(y, z, tc), DoubleHalved(MapSide, z),
                              DoubleHalved(MapSide, 1)),
                        DoubleHalved(MapSide, z))]

\* a tile next to the tile t of the same zoom, t itself, or the tile of the
\* flipped row
Near(t, u) ==
    /\ u.z = t.z
    /\ u.x - t.x \in {-1, 0, 1}
    /\ (u.y - t.y \in {-1, 0, 1} \/ u.y = Pow2(t.z) - t.y - 1)

\* a mapper as constructed: the address given, the row after line 44 and
\* the bounding box in meters
Mapper(t, tc) ==
    [x |-> t.x, y |-> t.y, z |-> t.z, tc |-> tc, row |-> FlipY(t.y, t.z, tc),
     bbox |-> bbox_m_(t.x, t.y, t.z, tc)]

InitTiles ==
    /\ surface = <<>>
    /\ wm = NoTile /\ point = NoPoint /\ cr = NoContext /\ multi_poly = <<>>
    /\ pc = "idle"
    /\ enc_root = <<>> /\ cache = NoCache
    /\ pos = 1
    /\ charts_ = NoCharts
    /\ styles_ = LoadedStyles
    /\ proc = "running"
    /\ error = "none"
    /\ req = NoRequest
    /\ selected = <<>>
    /\ idx = 0
    /\ ods = NoLayers
    /\ clip_layer = {}
    /\ opened = <<>>
    /\ result = "none"
    /\ response = 0
    /\ conn = NoThreads /\ datasets = NoDatasets
    /\ style_dir = <<>>

\* web_mercator::web_mercator (lines 25-58) for a first tile and then for
\* a tile near it; surface keeps the mappers in the order constructed
construct(t, tc) ==
    /\ Len(surface) < 2
    /\ surface # <<>> => Near(surface[1], t)
    /\ wm' = Mapper(t, tc).bbox
    /\ surface' = Append(surface, Mapper(t, tc))
    /\ pc' = "tile"
    /\ UNCHANGED <<Mapped, point>>

NextTiles == \E t \in TileAddresses, tc \in {"WTMS", "XYZ"} : construct(t, tc)

SpecTiles == InitTiles /\ [][NextTiles]_vars

-----------------------------------------------------------------------------
(* Division of doubles, and the coordinate conversions of web_mercator:    *)
(* meters_to_pixels and pixels_to_meters in the doubles of the code.       *)

\* the largest limb d between lo and hi with d * b <= r
RECURSIVE QuotientLimb(_, _, _, _)
QuotientLimb(r, b, lo, hi) ==
    IF lo = hi THEN lo
    ELSE IF LessLimbs(r, Strip(MulLimb(b, (lo + hi + 1) \div 2, 0)))
    THEN QuotientLimb(r, b, lo, ((lo + hi + 1) \div 2) - 1)
    ELSE QuotientLimb(r, b, (lo + hi + 1) \div 2, hi)

\* the quotient q and the remainder r have the next lower limb d
DivPut(q, r, b, d) ==
    [q |-> Strip(<<d>> \o q), r |-> Strip(SubLimbs(r, MulLimb(b, d, 0), 0))]

\* the two high limbs of r, for a divisor of n limbs
HighLimbs(r, n) ==
    (IF Len(r) > n THEN r[n + 1] * Base ELSE 0) + (IF Len(r) >= n THEN r[n] ELSE 0)

\* for r < b * Base the quotient limb lies between the quotients of the
\* high limbs of r by the high limb of b, taken one more and as it is
DivDigit(q, r, b) ==
    DivPut(q, r, b,
           QuotientLimb(r, b, HighLimbs(r, Len(b)) \div (b[Len(b)] + 1),
                        Min({Base - 1, HighLimbs(r, Len(b)) \div b[Len(b)]})))

\* a \div b and a % b for b # 0, limb by limb from the high end
DivStep(high, limb, b) == DivDigit(high.q, Strip(<<limb>> \o high.r), b)

RECURSIVE DivLimbs(_, _)
DivLimbs(a, b) ==
    IF Len(a) < Len(b) THEN [q |-> <<>>, r |-> Strip(a)]
    ELSE LET high == DivLimbs(Tail(a), b)
         IN  IF high.r = <<>> /\ a[1] = 0
             THEN [q |-> Strip(<<0>> \o high.q), r |-> <<>>]
             ELSE DivStep(high, a[1], b)

\* twice the quotient, with a last digit that tells a remainder
Sticky(d) == AddLimbs(ShiftLeft(d.q, 1), IF d.r = <<>> THEN <<>> ELSE <<1>>, 0)

\* the operator / of doubles, for a divisor that is not zero
DoubleDiv(a, b) ==
    IF a.m = <<>> THEN a
    ELSE fl(a.neg # b.neg, Sticky(DivLimbs(ShiftLeft(a.m, Precision + 3), b.m)),
            a.e - b.e - (Precision + 4))

\* comparisons of doubles
Zero(a) == a.m = <<>>
Positive(a) == a.m # <<>> /\ ~a.neg
Less(a, b) == DoubleSub(a, b).m # <<>> /\ DoubleSub(a, b).neg
Fabs(a) == [a EXCEPT !.neg = FALSE]

\* web_mercator::web_mercator (lines 25-58): bbox_m_ and ppm_
web_mercator(x, y, z, tc, tile_size) ==
    [bbox_m_ |-> bbox_m_(x, y, z, tc),
     ppm_ |-> DoubleDiv(ToDouble(tile_size), DoubleHalved(MapSide, z)),
     tile_size |-> tile_size]

\* pixel rows counted from the bottom edge of the tile
meters_to_pixels_upright(m, in) ==
    coord(DoubleMul(DoubleSub(in.x, m.bbox_m_.MinX), m.ppm_),
          DoubleMul(DoubleSub(in.y, m.bbox_m_.MinY), m.ppm_))

\* web_mercator::meters_to_pixels (lines 132-141)
meters_to_pixels(m, in) ==
    coord(DoubleMul(DoubleSub(in.x, m.bbox_m_.MinX), m.ppm_),
          DoubleMul(DoubleSub(m.bbox_m_.MaxY, in.y), m.ppm_))

\* web_mercator::pixels_to_meters (lines 149-157)
pixels_to_meters(m, in) ==
    coord(DoubleAdd(m.bbox_m_.MinX, DoubleDiv(in.x, m.ppm_)),
          DoubleSub(m.bbox_m_.MaxY, DoubleDiv(in.y, m.ppm_)))

\* half the side of a tile of the highest zoom, in meters
Unit == DoubleHalved(MapSide, MaxZoom + 1)

\* k * Unit for an integer k
Units(k) == [DoubleMul(ToDouble(Abs(k)), Unit) EXCEPT !.neg = k < 0]

\* meter coordinates: on the two diagonals of the map, at every multiple of
\* Unit and one beyond the map, and a point given in whole meters
MeterCoords ==
    {coord(Units(k), Units(j)) :
        <<k, j>> \in {c \in (-(Pow2(MaxZoom) + 1)..(Pow2(MaxZoom) + 1))
                            \X (-(Pow2(MaxZoom) + 1)..(Pow2(MaxZoom) + 1)) :
                        c[2] \in {c[1], -c[1]}}}
    \cup {coord(ToDouble(1), ToDouble(radius))}

\* the corners (MinX, MaxY) and (MaxX, MinY) of a tile
Corners(m) ==
    {coord(m.bbox_m_.MinX, m.bbox_m_.MaxY), coord(m.bbox_m_.MaxX, m.bbox_m_.MinY)}

InitMercator ==
    /\ wm = NoTile /\ point = NoPoint /\ cr = NoContext /\ multi_poly = <<>> /\ surface = <<>>
    /\ pc = "idle"
    /\ enc_root = <<>> /\ cache = NoCache
    /\ pos = 1
    /\ charts_ = NoCharts
    /\ styles_ = LoadedStyles
    /\ proc = "running"
    /\ error = "none"
    /\ req = NoRequest
    /\ selected = <<>>
    /\ idx = 0
    /\ ods = NoLayers
    /\ clip_layer = {}
    /\ opened = <<>>
    /\ result = "none"
    /\ response = 0
    /\ conn = NoThreads /\ datasets = NoDatasets
    /\ style_dir = <<>>

\* render constructs the mapper of the requested tile (part_003 line 111)
tile_mapper(t, tc, tile_size) ==
    /\ pc = "idle"
    /\ wm' = web_mercator(t.x, t.y, t.z, tc, tile_size)
    /\ pc' = "tile"
    /\ UNCHANGED <<Mapped, point, surface>>

\* a coordinate in meters is mapped to pixels; surface keeps the
\* coordinates in the order they were computed
to_pixels(p) ==
    /\ pc = "tile"
    /\ point' = meters_to_pixels(wm, p)
    /\ surface' = <<p, meters_to_pixels(wm, p)>>
    /\ pc' = "pixels"
    /\ UNCHANGED <<Mapped, wm>>

\* and the pixels back to meters
to_meters ==
    /\ pc = "pixels"
    /\ point' = pixels_to_meters(wm, point)
    /\ surface' = Append(surface, pixels_to_meters(wm, point))
    /\ pc' = "meters"
    /\ UNCHANGED <<Mapped, wm>>

NextMercator ==
    \/ \E t \in TileAddresses, tc \in {"WTMS", "XYZ"}, tile_size \in TileSizes :
          tile_mapper(t, tc, tile_size)
    \/ pc = "tile" /\ \E p \in MeterCoords \cup Corners(wm) : to_pixels(p)
    \/ to_meters

SpecMercator == InitMercator /\ [][NextMercator]_vars

\* the tolerance of a coordinate, in meters and in pixels: 2^-26, four
\* units in the last place of a coordinate at the edge of the map
Tolerance == Double(FALSE, <<1>>, -26)

\* two doubles differ by the tolerance at most
Close(a, b) == ~Positive(DoubleSub(Fabs(DoubleSub(a, b)), Tolerance))

\* C19: for every tile, convention and tile size, pixels_to_meters gives
\* back the meter coordinate meters_to_pixels was applied to, within the
\* tolerance; pixel (0,0) is the corner (MinX, MaxY) of the tile, pixel x
\* grows with meter x and pixel y grows as meter y decreases, up to
\* tile_size (within the tolerance) at (MaxX, MinY).
C19_PixelsMetersInverse ==
    /\ pc = "meters" =>
          /\ Close(surface[3].x, surface[1].x)
          /\ Close(surface[3].y, surface[1].y)
    /\ pc = "pixels" =>
          /\ (Zero(surface[2].x) /\ Zero(surface[2].y)) <=>
                surface[1] = coord(wm.bbox_m_.MinX, wm.bbox_m_.MaxY)
          /\ Positive(surface[2].x) <=> Less(wm.bbox_m_.MinX, surface[1].x)
          /\ Positive(surface[2].y) <=> Less(surface[1].y, wm.bbox_m_.MaxY)
          /\ surface[1] = coord(wm.bbox_m_.MaxX, wm.bbox_m_.MinY) =>
                /\ Close(surface[2].x, ToDouble(wm.tile_size))
                /\ Close(surface[2].y, ToDouble(wm.tile_size))

\* a coordinate has come back from its pixel coordinates changed by the
\* rounding of the doubles, and within the tolerance
C19_Witness ==
    /\ pc = "meters" /\ wm.tile_size = 100
    /\ Positive(surface[2].x) /\ Positive(surface[2].y)
    /\ surface[3] # surface[1]
    /\ Close(surface[3].x, surface[1].x) /\ Close(surface[3].y, surface[1].y)


\* C29: the WTMS tile (x, y, z) has the bounding box of the XYZ tile
\* (x, 2^z - 1 - y, z); the flipped row is in 0..2^z - 1 and flipped again
\* is y; a tile's MaxX is the MinX of the next tile of its row and its MaxY
\* the MinY of the next tile of its column.
C29_TileEdges ==
    \A i, j \in 1..Len(surface) :
        LET a == surface[i]
            b == surface[j]
        IN /\ a.row \in 0..(Pow2(a.z) - 1)
           /\ a.tc = "WTMS" => FlipY(a.row, a.z, "WTMS") = a.y
           /\ (a.tc = "WTMS" /\ b.tc = "XYZ" /\ b.z = a.z /\ b.x = a.x
                  /\ b.y = Pow2(a.z) - 1 - a.y) => a.bbox = b.bbox
           /\ (b.z = a.z /\ b.row = a.row /\ b.x = a.x + 1) =>
                 a.bbox.MaxX = b.bbox.MinX
           /\ (b.z = a.z /\ b.x = a.x /\ b.row = a.row + 1) =>
                 a.bbox.MaxY = b.bbox.MinY


\* request envelopes on the grid and along the bounds of the far coverage
ProbeBoxes ==
    BBoxes \cup {[MinX |-> x, MaxX |-> x + 2, MinY |-> 7654321, MaxY |-> 7654322] :
                    x \in 1234560..1234566}

\* C30: a chart indexed for a path of the chart root holds the metadata the
\* disk parse gives for that path (path, scale and the four bounds), also
\* when it was indexed from the record an earlier run saved, and so is
\* suitable for the same requests.
C30_CacheRoundTrip ==
    \A i \in 1..Len(enc_root) :
        (/\ enc_root[i].stem \in DOMAIN charts_
         /\ charts_[enc_root[i].stem].path = PathOf(enc_root[i]))
        => /\ charts_[enc_root[i].stem] = load_chart_disk(enc_root[i])
           /\ \A b \in ProbeBoxes, z \in Zooms :
                 Suitable(charts_[enc_root[i].stem], b, ScaleMin(z))
                    = Suitable(load_chart_disk(enc_root[i]), b, ScaleMin(z))

====
